---- MODULE Spec2Model ----
(***************************************************************************)
(* The arbitrage application: the paper-trading engine (Balance,           *)
(* Portfolio, Orderbook.get_executable_price, OrderValidator,              *)
(* SlippageSimulator.simulate, PaperTrader), the ArbitrageCalculator, the  *)
(* ArbitrageDetector and the RiskManager.                                  *)
(*   Spec        calls on one PaperTrader, one at a time                   *)
(*   SpecBalance calls on one Balance                                      *)
(*   SpecScan    the detector's initialize and scans                       *)
(*   SpecRisk    the risk manager's can_trade and update_exposure          *)
(*   SpecCalc    the stateless methods on one orderbook                    *)
(*   SpecConc    execute_arbitrage calls in flight at the same time        *)
(*   SpecEquiv   record_trade and _update_portfolio side by side           *)
(*   SpecTrader  execute_arbitrage and reset calls on one PaperTrader      *)
(*   SpecMain    main()'s scan loop, or direct calls on the risk manager   *)
(*                                                                         *)
(* Decimal quantities are integers at a fixed resolution:                  *)
(*   money (USD, prices)  : 1/MoneyScale USD                               *)
(*   volumes              : 1/VolScale                                     *)
(*   percentages          : 1/PctScale %                                   *)
(*   slippage percentages : 1/SlipScale %                                  *)
(*   fee percentages      : 1/FeeScale %                                   *)
(* The inputs are chosen so that prices, fees, profits and the portfolio's  *)
(* percentages are exact at these resolutions.  Two quotients that Decimal *)
(* itself rounds (the average price of a book walk, a trade's              *)
(* net_profit_percent) are rounded down to the resolution.  Wall-clock     *)
(* fields (timestamps, total_execution_ms) are left out.                   *)
(***************************************************************************)
EXTENDS Integers, Sequences, FiniteSets, TLC

VARIABLES portfolio, trades, orders, nextId, lastOp, lastTrade, lastBooks, lastArg, lastRet, applied, calls, steps, inflight, recorded, main, riskManager, detector, calc

vars == <<portfolio, trades, orders, nextId, lastOp, lastTrade, lastBooks, lastArg, lastRet, applied, calls, steps, inflight, recorded, main, riskManager, detector, calc>>

\* ------------------------------------------------------------------ bounds
\* calls made on one PaperTrader and its Portfolio
MaxSteps == 3

\* the largest volume asked of the stateless methods, in 1/VolScale
MaxVolume == 5

\* ------------------------------------------------- fixed-point resolutions
MoneyScale == 10000

VolScale == 20

PctScale == 1000000

SlipScale == 100

FeeScale == 10

RiskScale == 100000000

\* ------------------------------------------------------------- arithmetic
RECURSIVE GCD(_, _)
GCD(a, b) == IF b = 0 THEN a ELSE GCD(b, a % b)

\* floor(a * b / c) for b >= 0, c > 0, without forming a * b
MulDiv(a, b, c) ==
    LET g == GCD(b, c)
        bb == b \div g
        cc == c \div g
    IN (a \div cc) * bb + ((a % cc) * bb) \div cc

Min(a, b) == IF a <= b THEN a ELSE b

Max(a, b) == IF a >= b THEN a ELSE b

Abs(a) == IF a < 0 THEN 0 - a ELSE a

RECURSIVE SumSeq(_)
SumSeq(s) == IF s = <<>> THEN 0 ELSE s[1] + SumSeq(Tail(s))

\* ------------------------------------------------------ program constants
\* settings.INITIAL_BALANCE_USD / _BTC / _ETH
INITIAL_BALANCE_USD == 10000

INITIAL_BALANCE_BTC == 1

INITIAL_BALANCE_ETH == 10

\* OrderValidator.min_fill_ratio = 0.95 and max_price_deviation = 0.01, in %
min_fill_ratio == 95

max_price_deviation == 1

\* SlippageSimulator: 5 basis points, impact 0.1 per unit of volume ratio
\* (in tenths), cap of 2 %
base_slippage_bps == 5

volume_impact_factor == 1

MaxSlippagePercent == 2

\* settings.MAX_POSITION_SIZE_USD, MAX_TOTAL_EXPOSURE_USD, MAX_DRAWDOWN_PERCENT
MAX_POSITION_SIZE_USD == 1000

MAX_TOTAL_EXPOSURE_USD == 5000

MAX_DRAWDOWN_PERCENT == 10

\* settings.MIN_PROFIT_THRESHOLD_PERCENT = 0.1, in 1/PctScale %
MIN_PROFIT_THRESHOLD_PERCENT == 100000

\* RiskManager.can_trade: the highest risk score accepted, 0.8, in tenths
max_risk_score == 8

\* ArbitrageDetector.opportunity_window_ms
opportunity_window_ms == 5000

\* ------------------------------------------------------------------ inputs
Level(p, v) == [price |-> p * MoneyScale, volume |-> v]

\* buy-side venue around 20000 USD
BuyBookDeep == [bids |-> <<Level(19900, 40)>>, asks |-> <<Level(20000, 40), Level(20100, 100)>>]

\* only half of a 1.0 order is on offer, and nobody bids
BuyBookShort == [bids |-> <<>>, asks |-> <<Level(20000, 10)>>]

\* sell-side venue: deep bids at 20400
SellBookDeep == [bids |-> <<Level(20400, 40), Level(20300, 100)>>, asks |-> <<Level(20500, 40)>>]

\* bids for 0.95 of a 1.0 order in two levels
SellBookThin == [bids |-> <<Level(20400, 10), Level(20300, 9)>>, asks |-> <<Level(20500, 40)>>]

\* the bids have dropped 3 % below the quoted sell price
SellBookLow == [bids |-> <<Level(19800, 40)>>, asks |-> <<Level(20500, 40)>>]

BookPairs ==
    { <<BuyBookDeep, SellBookDeep>>,
      <<BuyBookDeep, SellBookThin>>, <<BuyBookShort, SellBookDeep>>,
      <<BuyBookDeep, SellBookLow>>, <<BuyBookShort, SellBookLow>> }

Opp(id, bp, sp, vol, bf, sf) ==
    [id |-> id, buy_price |-> bp * MoneyScale, sell_price |-> sp * MoneyScale,
     recommended_volume |-> vol, buy_fee_percent |-> bf, sell_fee_percent |-> sf]

\* a 2 % spread with 0.5 % fees per leg, and the same with 1.5 % on the sell leg
Opportunities ==
    { Opp("opp-wide", 20000, 20400, VolScale, 5, 5),
      Opp("opp-costly", 20000, 20400, VolScale, 5, 15) }

\* random.uniform(0.8, 1.2) for the buy leg and for the sell leg, in %
RandomDraws == { <<80, 120>>, <<120, 80>> }

\* profits handed to Portfolio.record_trade, in USD
Profits == { 0 - 500, 0, 10 }

\* ---------------------------------------------------------------- Orderbook
RECURSIVE WalkLevels(_, _, _, _)
WalkLevels(levels, volume, total_cost, filled_volume) ==
    IF levels = <<>> \/ volume - filled_volume <= 0
    THEN [total_cost |-> total_cost, filled_volume |-> filled_volume]
    ELSE LET level == Head(levels)
             fill_at_level == Min(volume - filled_volume, level.volume)
         IN WalkLevels(Tail(levels), volume,
                       total_cost + MulDiv(level.price, fill_at_level, VolScale),
                       filled_volume + fill_at_level)

\* mutant: a buy walks the bids and a sell the asks
get_executable_price_other_side(orderbook, side, volume) ==
    LET levels == IF side = "sell" THEN orderbook.asks ELSE orderbook.bids
        w == WalkLevels(levels, volume, 0, 0)
    IN IF w.filled_volume = 0
       THEN [avg_price |-> 0, filled_volume |-> 0]
       ELSE [avg_price |-> MulDiv(w.total_cost, VolScale, w.filled_volume),
             filled_volume |-> w.filled_volume]

\* Orderbook.get_executable_price: (average price, filled volume); the
\* quotient is rounded down to the money resolution
get_executable_price(orderbook, side, volume) ==
    LET levels == IF side = "sell" THEN orderbook.bids ELSE orderbook.asks
        w == WalkLevels(levels, volume, 0, 0)
    IN IF w.filled_volume = 0
       THEN [avg_price |-> 0, filled_volume |-> 0]
       ELSE [avg_price |-> MulDiv(w.total_cost, VolScale, w.filled_volume),
             filled_volume |-> w.filled_volume]

\* ----------------------------------------------------------- OrderValidator
\* mutant: the price is compared even when the order has no expected price
would_have_executed_always_compares(order, orderbook, side) ==
    LET ep == get_executable_price(orderbook, side, order.requested_volume)
    IN IF ep.filled_volume * 100 < order.requested_volume * min_fill_ratio
       THEN FALSE
       ELSE IF side = "buy"
            THEN ~(ep.avg_price > MulDiv(order.average_fill_price, 100 + max_price_deviation, 100))
            ELSE ~(ep.avg_price < MulDiv(order.average_fill_price, 100 - max_price_deviation, 100))

would_have_executed(order, orderbook, side) ==
    LET ep == get_executable_price(orderbook, side, order.requested_volume)
    IN IF ep.filled_volume * 100 < order.requested_volume * min_fill_ratio
       THEN FALSE
       ELSE IF order.average_fill_price # 0
            THEN IF side = "buy"
                 THEN ~(ep.avg_price > MulDiv(order.average_fill_price, 100 + max_price_deviation, 100))
                 ELSE ~(ep.avg_price < MulDiv(order.average_fill_price, 100 - max_price_deviation, 100))
            ELSE TRUE

\* OrderValidator.estimate_fill_probability, in 1/PctScale: the volume it
\* looks at is the one get_executable_price could fill of the order
estimate_fill_probability(order, orderbook, side) ==
    LET available_volume ==
            get_executable_price(orderbook, side, order.requested_volume).filled_volume
    IN IF available_volume = 0 THEN 0
       ELSE IF available_volume >= order.requested_volume * 2
       THEN MulDiv(PctScale, 95, 100)
       ELSE IF available_volume >= order.requested_volume
       THEN Min(MulDiv(PctScale, 9, 10),
                MulDiv(available_volume, PctScale \div 2, order.requested_volume))
       ELSE MulDiv(available_volume, PctScale \div 2, order.requested_volume)

\* -------------------------------------------------------- SlippageSimulator
\* simulate(orderbook, side, volume) with the drawn random factor (in %)
simulate(orderbook, side, volume, random_factor) ==
    LET base == MulDiv(base_slippage_bps, SlipScale, 100)
        top_level_volume == IF side = "buy" THEN orderbook.asks[1].volume
                                            ELSE orderbook.bids[1].volume
        withVolume ==
            IF orderbook.bids # <<>> /\ orderbook.asks # <<>>
            THEN IF top_level_volume > 0
                 THEN base + MulDiv(volume, SlipScale * volume_impact_factor, top_level_volume * 10)
                 ELSE base
            ELSE base
    IN Min(MulDiv(withVolume, random_factor, 100), MaxSlippagePercent * SlipScale)

\* ------------------------------------------------------------------ Balance
Balance(available, locked) == [available |-> available, locked |-> locked]

\* mutant: the whole available balance cannot be locked
can_afford_strict(balance, amount) == balance.available > amount

can_afford(balance, amount) == balance.available >= amount

\* Balance.lock: the balance afterwards and the returned flag
lock(balance, amount) ==
    IF ~can_afford(balance, amount)
    THEN [balance |-> balance, ret |-> FALSE]
    ELSE [balance |-> Balance(balance.available - amount, balance.locked + amount),
          ret |-> TRUE]

unlock(balance, amount) ==
    LET unlock_amount == Min(amount, balance.locked)
    IN Balance(balance.available + unlock_amount, balance.locked - unlock_amount)

fill(balance, locked_amount, received_amount) ==
    Balance(balance.available, balance.locked - Min(locked_amount, balance.locked))

\* ---------------------------------------------------------------- Portfolio
\* dict assignment d[k] = v
DictPut(d, k, v) == [x \in (DOMAIN d) \cup {k} |-> IF x = k THEN v ELSE d[x]]

EmptyDict == [x \in {} |-> 0]

\* x / initial_value_usd * 100
PercentOf(x, initial_value_usd) == MulDiv(x, 100 * PctScale, initial_value_usd)

\* Portfolio.get_balance: the balances after the lookup (a missing currency
\* is created with nothing available)
get_balance(balances, currency) ==
    IF currency \in DOMAIN balances THEN balances
    ELSE DictPut(balances, currency, Balance(0, 0))

add_balance(balances, currency, amount) ==
    LET bs == get_balance(balances, currency)
    IN [bs EXCEPT ![currency].available = @ + amount]

\* Portfolio.subtract_balance: the balances afterwards and the returned flag
subtract_balance(balances, currency, amount) ==
    LET bs == get_balance(balances, currency)
    IN IF ~can_afford(bs[currency], amount)
       THEN [balances |-> bs, ret |-> FALSE]
       ELSE [balances |-> [bs EXCEPT ![currency].available = @ - amount], ret |-> TRUE]

\* mutant: wins per loss instead of wins per trade
win_rate_per_loss(pf) ==
    IF pf.losing_trades = 0 THEN 0
    ELSE MulDiv(pf.winning_trades, 100 * PctScale, pf.losing_trades)

\* Portfolio.win_rate, in 1/PctScale %
win_rate(pf) ==
    IF pf.total_trades = 0 THEN 0
    ELSE MulDiv(pf.winning_trades, 100 * PctScale, pf.total_trades)

\* mutant: the drawdown follows the current loss instead of the deepest one
record_trade_overwrites_drawdown(pf, profit) ==
    LET total_pnl_usd == pf.total_pnl_usd + profit
        drawdown == Abs(total_pnl_usd)
        deeper == total_pnl_usd < 0
    IN [pf EXCEPT
          !.total_trades = @ + 1,
          !.total_pnl_usd = total_pnl_usd,
          !.realized_pnl = @ + profit,
          !.total_value_usd = @ + profit,
          !.winning_trades = IF profit > 0 THEN @ + 1 ELSE @,
          !.losing_trades = IF profit > 0 THEN @ ELSE @ + 1,
          !.total_pnl_percent =
              IF pf.initial_value_usd > 0
              THEN PercentOf(total_pnl_usd, pf.initial_value_usd) ELSE @,
          !.max_drawdown_usd = IF deeper THEN drawdown ELSE @,
          !.max_drawdown_percent =
              IF deeper /\ pf.initial_value_usd > 0
              THEN PercentOf(drawdown, pf.initial_value_usd) ELSE @]

\* mutant: a zero profit counts as a win
record_trade_zero_wins(pf, profit) ==
    LET total_pnl_usd == pf.total_pnl_usd + profit
        drawdown == Abs(total_pnl_usd)
        deeper == total_pnl_usd < 0 /\ drawdown > pf.max_drawdown_usd
    IN [pf EXCEPT
          !.total_trades = @ + 1,
          !.total_pnl_usd = total_pnl_usd,
          !.realized_pnl = @ + profit,
          !.total_value_usd = @ + profit,
          !.winning_trades = IF profit >= 0 THEN @ + 1 ELSE @,
          !.losing_trades = IF profit >= 0 THEN @ ELSE @ + 1,
          !.total_pnl_percent =
              IF pf.initial_value_usd > 0
              THEN PercentOf(total_pnl_usd, pf.initial_value_usd) ELSE @,
          !.max_drawdown_usd = IF deeper THEN drawdown ELSE @,
          !.max_drawdown_percent =
              IF deeper /\ pf.initial_value_usd > 0
              THEN PercentOf(drawdown, pf.initial_value_usd) ELSE @]

\* mutant: the P&L percentage is computed before the profit is added
record_trade_stale_percent(pf, profit) ==
    LET total_pnl_usd == pf.total_pnl_usd + profit
        drawdown == Abs(total_pnl_usd)
        deeper == total_pnl_usd < 0 /\ drawdown > pf.max_drawdown_usd
    IN [pf EXCEPT
          !.total_trades = @ + 1,
          !.total_pnl_usd = total_pnl_usd,
          !.realized_pnl = @ + profit,
          !.total_value_usd = @ + profit,
          !.winning_trades = IF profit > 0 THEN @ + 1 ELSE @,
          !.losing_trades = IF profit > 0 THEN @ ELSE @ + 1,
          !.total_pnl_percent =
              IF pf.initial_value_usd > 0
              THEN PercentOf(pf.total_pnl_usd, pf.initial_value_usd) ELSE @,
          !.max_drawdown_usd = IF deeper THEN drawdown ELSE @,
          !.max_drawdown_percent =
              IF deeper /\ pf.initial_value_usd > 0
              THEN PercentOf(drawdown, pf.initial_value_usd) ELSE @]

\* Portfolio.record_trade(profit)
record_trade(pf, profit) ==
    LET total_pnl_usd == pf.total_pnl_usd + profit
        drawdown == Abs(total_pnl_usd)
        deeper == total_pnl_usd < 0 /\ drawdown > pf.max_drawdown_usd
    IN [pf EXCEPT
          !.total_trades = @ + 1,
          !.total_pnl_usd = total_pnl_usd,
          !.realized_pnl = @ + profit,
          !.total_value_usd = @ + profit,
          !.winning_trades = IF profit > 0 THEN @ + 1 ELSE @,
          !.losing_trades = IF profit > 0 THEN @ ELSE @ + 1,
          !.total_pnl_percent =
              IF pf.initial_value_usd > 0
              THEN PercentOf(total_pnl_usd, pf.initial_value_usd) ELSE @,
          !.max_drawdown_usd = IF deeper THEN drawdown ELSE @,
          !.max_drawdown_percent =
              IF deeper /\ pf.initial_value_usd > 0
              THEN PercentOf(drawdown, pf.initial_value_usd) ELSE @]

\* -------------------------------------------------------------- PaperTrader
\* PaperTrader._initialize_portfolio
initialize_portfolio ==
    LET initial_balance == INITIAL_BALANCE_USD * MoneyScale
    IN [balances |->
            [c \in {"USD", "BTC", "ETH", "USDT"} |->
                CASE c = "USD" -> Balance(initial_balance, 0)
                  [] c = "BTC" -> Balance(INITIAL_BALANCE_BTC * VolScale, 0)
                  [] c = "ETH" -> Balance(INITIAL_BALANCE_ETH * VolScale, 0)
                  [] c = "USDT" -> Balance(initial_balance, 0)],
        total_value_usd |-> initial_balance,
        initial_value_usd |-> initial_balance,
        total_pnl_usd |-> 0,
        total_pnl_percent |-> 0,
        realized_pnl |-> 0,
        unrealized_pnl |-> 0,
        total_trades |-> 0,
        winning_trades |-> 0,
        losing_trades |-> 0,
        max_drawdown_usd |-> 0,
        max_drawdown_percent |-> 0]

\* mutant: the totals are written from the values the portfolio had when it
\* was created, so an update made by another call in between is lost
update_portfolio_lost_update(pf, net_profit) ==
    LET total_pnl_usd == net_profit
        drawdown == Abs(total_pnl_usd)
        deeper == total_pnl_usd < 0 /\ drawdown > pf.max_drawdown_usd
    IN [pf EXCEPT
          !.total_pnl_usd = total_pnl_usd,
          !.realized_pnl = net_profit,
          !.total_value_usd = pf.initial_value_usd + net_profit,
          !.total_trades = @ + 1,
          !.winning_trades = IF net_profit > 0 THEN @ + 1 ELSE @,
          !.losing_trades = IF net_profit > 0 THEN @ ELSE @ + 1,
          !.total_pnl_percent =
              IF pf.initial_value_usd > 0
              THEN PercentOf(total_pnl_usd, pf.initial_value_usd) ELSE @,
          !.max_drawdown_usd = IF deeper THEN drawdown ELSE @,
          !.max_drawdown_percent =
              IF deeper /\ pf.initial_value_usd > 0
              THEN PercentOf(drawdown, pf.initial_value_usd) ELSE @]

\* mutant: the drawdown is taken from the trade's loss, not from the total
update_portfolio_trade_drawdown(pf, net_profit) ==
    LET total_pnl_usd == pf.total_pnl_usd + net_profit
        drawdown == Abs(net_profit)
        deeper == net_profit < 0 /\ drawdown > pf.max_drawdown_usd
    IN [pf EXCEPT
          !.total_pnl_usd = total_pnl_usd,
          !.realized_pnl = @ + net_profit,
          !.total_value_usd = @ + net_profit,
          !.total_trades = @ + 1,
          !.winning_trades = IF net_profit > 0 THEN @ + 1 ELSE @,
          !.losing_trades = IF net_profit > 0 THEN @ ELSE @ + 1,
          !.total_pnl_percent =
              IF pf.initial_value_usd > 0
              THEN PercentOf(total_pnl_usd, pf.initial_value_usd) ELSE @,
          !.max_drawdown_usd = IF deeper THEN drawdown ELSE @,
          !.max_drawdown_percent =
              IF deeper /\ pf.initial_value_usd > 0
              THEN PercentOf(drawdown, pf.initial_value_usd) ELSE @]

\* PaperTrader._update_portfolio(buy_order, sell_order, net_profit)
update_portfolio(pf, net_profit) ==
    LET total_pnl_usd == pf.total_pnl_usd + net_profit
        drawdown == Abs(total_pnl_usd)
        deeper == total_pnl_usd < 0 /\ drawdown > pf.max_drawdown_usd
    IN [pf EXCEPT
          !.total_pnl_usd = total_pnl_usd,
          !.realized_pnl = @ + net_profit,
          !.total_value_usd = @ + net_profit,
          !.total_trades = @ + 1,
          !.winning_trades = IF net_profit > 0 THEN @ + 1 ELSE @,
          !.losing_trades = IF net_profit > 0 THEN @ ELSE @ + 1,
          !.total_pnl_percent =
              IF pf.initial_value_usd > 0
              THEN PercentOf(total_pnl_usd, pf.initial_value_usd) ELSE @,
          !.max_drawdown_usd = IF deeper THEN drawdown ELSE @,
          !.max_drawdown_percent =
              IF deeper /\ pf.initial_value_usd > 0
              THEN PercentOf(drawdown, pf.initial_value_usd) ELSE @]

\* PaperTrader._create_paper_order, with the random factor simulate() draws
create_paper_order(id, opportunity, side, orderbook, random_factor) ==
    LET volume == opportunity.recommended_volume
        slippage == simulate(orderbook, side, volume, random_factor)
        base_price == IF side = "buy" THEN opportunity.buy_price ELSE opportunity.sell_price
        fee_percent == IF side = "buy" THEN opportunity.buy_fee_percent
                                       ELSE opportunity.sell_fee_percent
        execution_price ==
            IF side = "buy"
            THEN MulDiv(base_price, 100 * SlipScale + slippage, 100 * SlipScale)
            ELSE MulDiv(base_price, 100 * SlipScale - slippage, 100 * SlipScale)
        fee_paid == MulDiv(MulDiv(execution_price, volume, VolScale), fee_percent, 100 * FeeScale)
    IN [id |-> id, opportunity_id |-> opportunity.id, side |-> side,
        requested_volume |-> volume, filled_volume |-> 0,
        average_fill_price |-> execution_price, status |-> "pending",
        fee_paid |-> fee_paid, would_have_executed |-> TRUE,
        simulated_slippage |-> slippage]

\* PaperTrader._calculate_gross_profit
calculate_gross_profit(buy_order, sell_order) ==
    IF buy_order.average_fill_price = 0 \/ sell_order.average_fill_price = 0
    THEN 0
    ELSE MulDiv(sell_order.average_fill_price, sell_order.filled_volume, VolScale)
         - MulDiv(buy_order.average_fill_price, buy_order.filled_volume, VolScale)

\* mutant: on failure only the failing leg is given a status
settle_order_failing_only(order, would_execute, both) ==
    IF both
    THEN [order EXCEPT !.would_have_executed = would_execute,
                       !.status = "filled", !.filled_volume = order.requested_volume]
    ELSE [order EXCEPT !.would_have_executed = would_execute,
                       !.status = IF ~would_execute THEN "failed" ELSE @]

\* execute_arbitrage, "Calculate results": the status a leg is left with
settle_order(order, would_execute, both) ==
    IF both
    THEN [order EXCEPT !.would_have_executed = would_execute,
                       !.status = "filled", !.filled_volume = order.requested_volume]
    ELSE [order EXCEPT !.would_have_executed = would_execute,
                       !.status = IF ~would_execute THEN "failed" ELSE "filled"]

\* execute_arbitrage, "Calculate net profit percent"
net_profit_percent(buy_order, net_profit) ==
    IF buy_order.average_fill_price # 0 /\ buy_order.requested_volume > 0
    THEN IF MulDiv(buy_order.average_fill_price, buy_order.requested_volume, VolScale) > 0
         THEN PercentOf(net_profit,
                        MulDiv(buy_order.average_fill_price, buy_order.requested_volume, VolScale))
         ELSE 0
    ELSE 0

\* execute_arbitrage, "Create trade record"
make_trade(id, opportunity, buy_order, sell_order, gross_profit, total_fees, status, both) ==
    [id |-> id, opportunity_id |-> opportunity.id,
     buy_order |-> buy_order, sell_order |-> sell_order,
     gross_profit |-> gross_profit, total_fees |-> total_fees,
     net_profit |-> gross_profit - total_fees,
     net_profit_percent |-> net_profit_percent(buy_order, gross_profit - total_fees),
     status |-> status,
     both_orders_would_have_executed |-> both]

\* mutant: the portfolio is updated on the failed branch too
calculate_results_always_updates(pf, id, opportunity, buy_order, sell_order, both) ==
    IF both
    THEN [trade |-> make_trade(id, opportunity, buy_order, sell_order,
                               calculate_gross_profit(buy_order, sell_order),
                               buy_order.fee_paid + sell_order.fee_paid,
                               "completed", both),
          portfolio |-> update_portfolio(pf,
                               calculate_gross_profit(buy_order, sell_order)
                               - (buy_order.fee_paid + sell_order.fee_paid))]
    ELSE [trade |-> make_trade(id, opportunity, buy_order, sell_order, 0, 0, "failed", both),
          portfolio |-> update_portfolio(pf, 0)]

\* execute_arbitrage, "Calculate results" with both legs settled: the Trade
\* returned and the portfolio left
calculate_results(pf, id, opportunity, buy_order, sell_order, both) ==
    IF both
    THEN [trade |-> make_trade(id, opportunity, buy_order, sell_order,
                               calculate_gross_profit(buy_order, sell_order),
                               buy_order.fee_paid + sell_order.fee_paid,
                               "completed", both),
          portfolio |-> update_portfolio(pf,
                               calculate_gross_profit(buy_order, sell_order)
                               - (buy_order.fee_paid + sell_order.fee_paid))]
    ELSE [trade |-> make_trade(id, opportunity, buy_order, sell_order, 0, 0, "failed", both),
          portfolio |-> pf]

\* execute_arbitrage, "Validate if orders would have executed"
validate_orders(pf, id, opportunity, buy_order, sell_order, buy_would_execute, sell_would_execute) ==
    calculate_results(pf, id, opportunity,
        settle_order(buy_order, buy_would_execute, buy_would_execute /\ sell_would_execute),
        settle_order(sell_order, sell_would_execute, buy_would_execute /\ sell_would_execute),
        buy_would_execute /\ sell_would_execute)

\* execute_arbitrage with both paper orders created
execute_orders(pf, id, opportunity, buy_orderbook, sell_orderbook, buy_order, sell_order) ==
    validate_orders(pf, id, opportunity, buy_order, sell_order,
        would_have_executed(buy_order, buy_orderbook, "buy"),
        would_have_executed(sell_order, sell_orderbook, "sell"))

\* PaperTrader.execute_arbitrage from the end of the simulated latency on,
\* with the two random factors the slippage simulator draws; id, id + 1 and
\* id + 2 are the fresh identifiers of the buy order, the sell order and the
\* trade
execute_arbitrage(pf, id, opportunity, buy_orderbook, sell_orderbook, rf_buy, rf_sell) ==
    execute_orders(pf, id + 2, opportunity, buy_orderbook, sell_orderbook,
        create_paper_order(id, opportunity, "buy", buy_orderbook, rf_buy),
        create_paper_order(id + 1, opportunity, "sell", sell_orderbook, rf_sell))

\* mutant: the sell order is stored under the buy order's id
store_trade_one_key(ts, os, trade) ==
    [trades |-> DictPut(ts, trade.id, trade),
     orders |-> DictPut(DictPut(os, trade.buy_order.id, trade.buy_order),
                        trade.buy_order.id, trade.sell_order)]

\* the three dict stores that end execute_arbitrage
store_trade(ts, os, trade) ==
    [trades |-> DictPut(ts, trade.id, trade),
     orders |-> DictPut(DictPut(os, trade.buy_order.id, trade.buy_order),
                        trade.sell_order.id, trade.sell_order)]

\* mutant: the portfolio survives a reset
reset_keeps_portfolio(ts, os, pf) ==
    [trades |-> EmptyDict, orders |-> EmptyDict, portfolio |-> pf]

\* mutant: the order history survives a reset
reset_keeps_orders(ts, os, pf) ==
    [trades |-> EmptyDict, orders |-> os, portfolio |-> initialize_portfolio]

\* PaperTrader.reset: trades, orders and portfolio afterwards
reset(ts, os, pf) ==
    [trades |-> EmptyDict, orders |-> EmptyDict, portfolio |-> initialize_portfolio]

\* ------------------------------------------------------ ArbitrageCalculator
\* a fee percentage (1/FeeScale %) and a slippage percentage (1/SlipScale %)
\* at the percentage resolution
FeeToPct(fee_percent) == fee_percent * (PctScale \div FeeScale)

\* what a call leaves behind: the value it returned, or the exception it
\* raised (decimal.DivisionByZero / decimal.InvalidOperation: both are
\* trapped by the default Decimal context)
Returned(value) == [raised |-> FALSE, value |-> value]

Raised == [raised |-> TRUE, value |-> 0]

Ticker(bid, ask, bid_volume, ask_volume) ==
    [bid |-> bid * MoneyScale, ask |-> ask * MoneyScale,
     bid_volume |-> bid_volume, ask_volume |-> ask_volume]

\* ArbitrageCalculator.calculate_cross_exchange_profit, transfer_fee = 0:
\* (gross_profit_percent, net_profit_percent, profit_usd)
calculate_cross_exchange_profit(buy_ticker, sell_ticker, buy_fee_percent, sell_fee_percent, volume) ==
    LET buy_price == buy_ticker.ask
        sell_price == sell_ticker.bid
    IN IF buy_price = 0 \/ sell_price = 0
       THEN <<0, 0, 0>>
       ELSE LET gross_profit_percent == MulDiv(sell_price - buy_price, 100 * PctScale, buy_price)
                total_fee_percent == FeeToPct(buy_fee_percent + sell_fee_percent)
                buy_cost == MulDiv(MulDiv(buy_price, volume, VolScale),
                                   100 * FeeScale + buy_fee_percent, 100 * FeeScale)
                sell_revenue == MulDiv(MulDiv(sell_price, volume, VolScale),
                                       100 * FeeScale - sell_fee_percent, 100 * FeeScale)
            IN <<gross_profit_percent, gross_profit_percent - total_fee_percent,
                 sell_revenue - buy_cost>>

\* the while loop of calculate_max_executable_volume; the spread divides by
\* the ask level's price
RECURSIVE WalkBooks(_, _, _, _, _, _, _, _)
WalkBooks(asks, bids, required_spread, buy_idx, sell_idx, buy_filled, sell_filled, max_volume) ==
    IF ~(buy_idx <= Len(asks) /\ sell_idx <= Len(bids))
    THEN Returned(max_volume)
    ELSE IF asks[buy_idx].price = 0
    THEN Raised
    ELSE IF MulDiv(bids[sell_idx].price - asks[buy_idx].price, 100 * PctScale,
                   asks[buy_idx].price) < required_spread
    THEN Returned(max_volume)
    ELSE IF asks[buy_idx].volume - buy_filled <= bids[sell_idx].volume - sell_filled
    THEN WalkBooks(asks, bids, required_spread, buy_idx + 1, sell_idx, 0,
                   sell_filled + (asks[buy_idx].volume - buy_filled),
                   max_volume + (asks[buy_idx].volume - buy_filled))
    ELSE WalkBooks(asks, bids, required_spread, buy_idx, sell_idx + 1,
                   buy_filled + (bids[sell_idx].volume - sell_filled), 0,
                   max_volume + (bids[sell_idx].volume - sell_filled))

\* ArbitrageCalculator.calculate_max_executable_volume
calculate_max_executable_volume(buy_orderbook, sell_orderbook, min_profit_percent, buy_fee_percent, sell_fee_percent) ==
    WalkBooks(buy_orderbook.asks, sell_orderbook.bids,
              FeeToPct(buy_fee_percent + sell_fee_percent) + min_profit_percent,
              1, 1, 0, 0, 0)

\* Orderbook.best_bid / Orderbook.best_ask
best_bid(orderbook) == IF orderbook.bids # <<>> THEN orderbook.bids[1].price ELSE 0

best_ask(orderbook) == IF orderbook.asks # <<>> THEN orderbook.asks[1].price ELSE 0

\* ArbitrageCalculator.estimate_slippage, in 1/PctScale %
estimate_slippage(orderbook, side, volume) ==
    LET ep == get_executable_price(orderbook, side, volume)
        best_price == IF side = "sell" THEN best_bid(orderbook) ELSE best_ask(orderbook)
    IN IF volume = 0 THEN 0
       ELSE IF ep.filled_volume = 0 THEN 100 * PctScale
       ELSE IF ep.filled_volume < volume THEN 50 * PctScale
       ELSE IF best_price = 0 THEN 0
       ELSE MulDiv(Abs(ep.avg_price - best_price), 100 * PctScale, best_price)

\* (result - 1) * 100 of one path of calculate_triangular_profit: 1 / p1,
\* then the prices multiplied or divided in the order the code does, the fee
\* multiplier after each; the running product is kept in 1/(100 * PctScale)
PathProfit(start, fee_percent, divide_second, p2, p3) ==
    LET fee(x) == MulDiv(x, 100 * FeeScale - fee_percent, 100 * FeeScale)
        a == fee(start)
        b == fee(IF divide_second THEN MulDiv(a, MoneyScale, p2) ELSE MulDiv(a, p2, MoneyScale))
        c == fee(MulDiv(b, p3, MoneyScale))
    IN c - 100 * PctScale

\* ArbitrageCalculator.calculate_triangular_profit: (profit_percent,
\* is_forward_profitable)
calculate_triangular_profit(price_ab, price_bc, price_ca, fee_percent) ==
    IF price_ab = 0 \/ price_bc = 0 \/ price_ca = 0
    THEN <<0, FALSE>>
    ELSE LET forward_profit ==
                 PathProfit(MulDiv(100 * PctScale, MoneyScale, price_ab),
                            fee_percent, TRUE, price_bc, price_ca)
             reverse_profit ==
                 PathProfit(MulDiv(100 * PctScale, MoneyScale, price_ca),
                            fee_percent, FALSE, price_bc, price_ab)
         IN IF forward_profit > reverse_profit
            THEN <<forward_profit, TRUE>>
            ELSE <<reverse_profit, FALSE>>

\* --------------------------------------------------------- ArbitrageDetector
\* mutant: the weighted sum is returned unclamped
calculate_risk_score_unclamped(profit_percent, slippage_percent, volume) ==
    LET profit_factor == Max(0, 10 * PctScale - profit_percent)
        slippage_factor == Min(10 * PctScale, 2 * slippage_percent)
        volume_factor == Max(0, 10 * PctScale - volume * ((PctScale \div VolScale)))
    IN 3 * profit_factor + 4 * slippage_factor + 3 * volume_factor

\* ArbitrageDetector._calculate_risk_score, in 1/RiskScale.  The three
\* factors are kept in 1/(10 * PctScale), where profit_percent / 10 is
\* profit_percent itself, slippage_percent / 5 is twice slippage_percent and
\* volume / 10 is volume * PctScale / VolScale; the weights 0.3, 0.4, 0.3 are
\* 3, 4, 3 tenths.
calculate_risk_score(profit_percent, slippage_percent, volume) ==
    LET profit_factor == Max(0, 10 * PctScale - profit_percent)
        slippage_factor == Min(10 * PctScale, 2 * slippage_percent)
        volume_factor == Max(0, 10 * PctScale - volume * ((PctScale \div VolScale)))
        risk == 3 * profit_factor + 4 * slippage_factor + 3 * volume_factor
    IN Min(RiskScale, Max(0, risk))

\* Python's None
None == [none |-> TRUE]

\* mutant: the recommended volume is not capped by the position size
check_pair_volume_uncapped(id, symbol, buy_exchange, sell_exchange, buy_data, sell_data, profit, max_volume) ==
    LET total_slippage == estimate_slippage(buy_data.orderbook, "buy", max_volume)
                          + estimate_slippage(sell_data.orderbook, "sell", max_volume)
        net_profit_with_slippage == profit[2] - total_slippage
        max_position_volume ==
            MulDiv(MAX_POSITION_SIZE_USD * MoneyScale, VolScale, buy_data.ticker.ask)
        recommended_volume == max_volume
    IN IF max_volume = 0 THEN None
       ELSE IF net_profit_with_slippage < MIN_PROFIT_THRESHOLD_PERCENT THEN None
       ELSE [id |-> id, status |-> "detected",
             buy_exchange |-> buy_exchange, sell_exchange |-> sell_exchange,
             symbol |-> symbol,
             buy_price |-> buy_data.ticker.ask, sell_price |-> sell_data.ticker.bid,
             max_volume |-> max_volume, recommended_volume |-> recommended_volume,
             gross_profit_percent |-> profit[1],
             net_profit_percent |-> net_profit_with_slippage,
             estimated_profit_usd |->
                 calculate_cross_exchange_profit(buy_data.ticker, sell_data.ticker,
                     buy_data.fee, sell_data.fee, recommended_volume)[3],
             buy_fee_percent |-> buy_data.fee, sell_fee_percent |-> sell_data.fee,
             estimated_slippage_percent |-> total_slippage,
             detected_at |-> 0,
             expires_at |-> 0 + opportunity_window_ms,
             window_ms |-> opportunity_window_ms,
             orderbook_depth_ok |-> max_volume * 100 > VolScale,
             liquidity_ok |-> /\ buy_data.ticker.bid_volume > recommended_volume
                              /\ sell_data.ticker.ask_volume > recommended_volume,
             risk_score |-> calculate_risk_score(net_profit_with_slippage,
                                                 total_slippage, max_volume)]

\* _check_pair once the executable volume is known; times are in ms from the
\* utcnow() reading that ends it
check_pair_volume(id, symbol, buy_exchange, sell_exchange, buy_data, sell_data, profit, max_volume) ==
    LET total_slippage == estimate_slippage(buy_data.orderbook, "buy", max_volume)
                          + estimate_slippage(sell_data.orderbook, "sell", max_volume)
        net_profit_with_slippage == profit[2] - total_slippage
        max_position_volume ==
            MulDiv(MAX_POSITION_SIZE_USD * MoneyScale, VolScale, buy_data.ticker.ask)
        recommended_volume == Min(max_volume, max_position_volume)
    IN IF max_volume = 0 THEN None
       ELSE IF net_profit_with_slippage < MIN_PROFIT_THRESHOLD_PERCENT THEN None
       ELSE [id |-> id, status |-> "detected",
             buy_exchange |-> buy_exchange, sell_exchange |-> sell_exchange,
             symbol |-> symbol,
             buy_price |-> buy_data.ticker.ask, sell_price |-> sell_data.ticker.bid,
             max_volume |-> max_volume, recommended_volume |-> recommended_volume,
             gross_profit_percent |-> profit[1],
             net_profit_percent |-> net_profit_with_slippage,
             estimated_profit_usd |->
                 calculate_cross_exchange_profit(buy_data.ticker, sell_data.ticker,
                     buy_data.fee, sell_data.fee, recommended_volume)[3],
             buy_fee_percent |-> buy_data.fee, sell_fee_percent |-> sell_data.fee,
             estimated_slippage_percent |-> total_slippage,
             detected_at |-> 0,
             expires_at |-> 0 + opportunity_window_ms,
             window_ms |-> opportunity_window_ms,
             orderbook_depth_ok |-> max_volume * 100 > VolScale,
             liquidity_ok |-> /\ buy_data.ticker.bid_volume > recommended_volume
                              /\ sell_data.ticker.ask_volume > recommended_volume,
             risk_score |-> calculate_risk_score(net_profit_with_slippage,
                                                 total_slippage, max_volume)]

\* ArbitrageDetector._check_pair: the opportunity or None it returns, or the
\* exception it lets through; data.fee is the exchange's fee * 100
check_pair(id, symbol, buy_exchange, sell_exchange, buy_data, sell_data) ==
    LET profit == calculate_cross_exchange_profit(buy_data.ticker, sell_data.ticker,
                                                  buy_data.fee, sell_data.fee, VolScale)
        max_volume == calculate_max_executable_volume(buy_data.orderbook, sell_data.orderbook,
                          MIN_PROFIT_THRESHOLD_PERCENT, buy_data.fee, sell_data.fee)
    IN IF buy_data.ticker.ask >= sell_data.ticker.bid THEN Returned(None)
       ELSE IF profit[2] < MIN_PROFIT_THRESHOLD_PERCENT THEN Returned(None)
       ELSE IF max_volume.raised THEN Raised
       ELSE Returned(check_pair_volume(id, symbol, buy_exchange, sell_exchange,
                                       buy_data, sell_data, profit, max_volume.value))

\* the (buy, sell) pairs in the order the two nested loops of
\* scan_cross_exchange_opportunities visit them
RECURSIVE PairsWith(_, _)
PairsWith(first, rest) ==
    IF rest = <<>> THEN <<>>
    ELSE <<<<first, Head(rest)>>, <<Head(rest), first>>>> \o PairsWith(first, Tail(rest))

RECURSIVE ExchangePairs(_)
ExchangePairs(exchanges_with_data) ==
    IF exchanges_with_data = <<>> THEN <<>>
    ELSE PairsWith(Head(exchanges_with_data), Tail(exchanges_with_data))
         \o ExchangePairs(Tail(exchanges_with_data))

\* the loop body over the remaining pairs: the opportunities appended, or the
\* exception of the first _check_pair that raises
RECURSIVE ComparePairs(_, _, _, _, _)
ComparePairs(pairs, symbol, market_data, id, opportunities) ==
    IF pairs = <<>> THEN Returned(opportunities)
    ELSE LET opp == check_pair(id, symbol, pairs[1][1], pairs[1][2],
                               market_data[pairs[1][1]], market_data[pairs[1][2]])
         IN IF opp.raised THEN Raised
            ELSE IF opp.value = None
            THEN ComparePairs(Tail(pairs), symbol, market_data, id, opportunities)
            ELSE ComparePairs(Tail(pairs), symbol, market_data, id + 1,
                              Append(opportunities, opp.value))

\* mutant: one failed fetch leaves the scan without market data
exchanges_with_data_all_or_nothing(exchange_list, failed) ==
    IF \E i \in 1..Len(exchange_list) : exchange_list[i] \in failed
    THEN <<>>
    ELSE exchange_list

\* _fetch_market_data and the filter of its results: the exchanges whose
\* fetch returned data (an exception inside the fetch becomes None)
exchanges_with_data(exchange_list, failed) ==
    SelectSeq(exchange_list, LAMBDA exchange : exchange \notin failed)

\* ArbitrageDetector.scan_cross_exchange_opportunities(symbol); market gives
\* what each exchange's get_ticker / get_orderbook / get_fee answer, failed
\* the exchanges where one of them raises, id the next unused identifier
scan_cross_exchange_opportunities(exchange_list, symbol, market, failed, id) ==
    ComparePairs(ExchangePairs(exchanges_with_data(exchange_list, failed)),
                 symbol, market[symbol], id, <<>>)

\* ArbitrageDetector.scan_all_symbols(symbols): gather(return_exceptions=True)
\* and the loop that extends the list with every result that is a list
RECURSIVE scan_all_symbols(_, _, _, _, _, _)
scan_all_symbols(exchange_list, symbols, market, failed, id, all_opportunities) ==
    IF symbols = <<>> THEN Returned(all_opportunities)
    ELSE LET result == scan_cross_exchange_opportunities(exchange_list, Head(symbols),
                                                         market, failed[Head(symbols)], id)
         IN IF result.raised
            THEN scan_all_symbols(exchange_list, Tail(symbols), market, failed,
                                  id, all_opportunities)
            ELSE scan_all_symbols(exchange_list, Tail(symbols), market, failed,
                     id + Len(result.value), all_opportunities \o result.value)

\* ArbitrageDetector.initialize(exchanges): self.exchanges afterwards, unreachable
\* being the exchanges whose ExchangeFactory.get_exchange raises
RECURSIVE initialize(_, _, _)
initialize(connected, exchanges, unreachable) ==
    IF exchanges = <<>> THEN connected
    ELSE IF Head(exchanges) \in unreachable
            \/ \E i \in 1..Len(connected) : connected[i] = Head(exchanges)
    THEN initialize(connected, Tail(exchanges), unreachable)
    ELSE initialize(Append(connected, Head(exchanges)), Tail(exchanges), unreachable)

\* --------------------------------------------------------------- RiskManager
\* RiskManager(paper_trader.portfolio): self.portfolio names the trader's
\* Portfolio object.  As long as the trader keeps that object (detached =
\* FALSE) its fields are the variable portfolio; once the trader has bound
\* self.portfolio to another object, the field portfolio holds the fields of
\* the object the manager still names.
RiskManager == [current_exposure |-> 0, detached |-> FALSE, portfolio |-> initialize_portfolio]

\* self.portfolio of a RiskManager, given the trader's current portfolio
risk_manager_portfolio(rm, pf) == IF rm.detached THEN rm.portfolio ELSE pf

\* what PaperTrader._initialize_portfolio's `self.portfolio = Portfolio(...)`
\* does to a manager that names the replaced object pf
portfolio_replaced(rm, pf) ==
    IF rm.detached THEN rm ELSE [rm EXCEPT !.detached = TRUE, !.portfolio = pf]

\* opportunity.recommended_volume * opportunity.buy_price
trade_value(opportunity) ==
    MulDiv(opportunity.buy_price, opportunity.recommended_volume, VolScale)

\* mutant: the risk score is looked at before the sizes
can_trade_risk_score_first(pf, current_exposure, opportunity) ==
    IF pf.max_drawdown_percent >= MAX_DRAWDOWN_PERCENT * PctScale
    THEN <<FALSE, "Max drawdown exceeded">>
    ELSE IF opportunity.risk_score * 10 > max_risk_score * RiskScale
    THEN <<FALSE, "Risk score too high">>
    ELSE IF trade_value(opportunity) > MAX_POSITION_SIZE_USD * MoneyScale
    THEN <<FALSE, "Position too large">>
    ELSE IF current_exposure + trade_value(opportunity) > MAX_TOTAL_EXPOSURE_USD * MoneyScale
    THEN <<FALSE, "Max exposure exceeded">>
    ELSE IF opportunity.net_profit_percent < MIN_PROFIT_THRESHOLD_PERCENT
    THEN <<FALSE, "Profit too low">>
    ELSE <<TRUE, "OK">>

\* RiskManager.can_trade(opportunity): (allowed, reason); pf is the portfolio
\* the manager refers to
can_trade(pf, current_exposure, opportunity) ==
    IF pf.max_drawdown_percent >= MAX_DRAWDOWN_PERCENT * PctScale
    THEN <<FALSE, "Max drawdown exceeded">>
    ELSE IF trade_value(opportunity) > MAX_POSITION_SIZE_USD * MoneyScale
    THEN <<FALSE, "Position too large">>
    ELSE IF current_exposure + trade_value(opportunity) > MAX_TOTAL_EXPOSURE_USD * MoneyScale
    THEN <<FALSE, "Max exposure exceeded">>
    ELSE IF opportunity.risk_score * 10 > max_risk_score * RiskScale
    THEN <<FALSE, "Risk score too high">>
    ELSE IF opportunity.net_profit_percent < MIN_PROFIT_THRESHOLD_PERCENT
    THEN <<FALSE, "Profit too low">>
    ELSE <<TRUE, "OK">>

\* RiskManager.update_exposure(trade_value, is_open): current_exposure afterwards
update_exposure(current_exposure, value, is_open) ==
    IF is_open THEN current_exposure + value
    ELSE Max(0, current_exposure - value)

\* mutant: a drawdown of exactly the limit does not stop the loop
check_stop_loss_above_limit(pf) ==
    LET max_loss == MulDiv(pf.initial_value_usd, MAX_DRAWDOWN_PERCENT, 100)
    IN IF pf.max_drawdown_percent > MAX_DRAWDOWN_PERCENT * PctScale
       THEN <<TRUE, "Max drawdown reached">>
       ELSE IF Abs(pf.total_pnl_usd) > max_loss /\ pf.total_pnl_usd < 0
       THEN <<TRUE, "Max loss reached">>
       ELSE <<FALSE, None>>

\* RiskManager.check_stop_loss(): (should_stop, reason); pf is the portfolio
\* the manager refers to
check_stop_loss(pf) ==
    LET max_loss == MulDiv(pf.initial_value_usd, MAX_DRAWDOWN_PERCENT, 100)
    IN IF pf.max_drawdown_percent >= MAX_DRAWDOWN_PERCENT * PctScale
       THEN <<TRUE, "Max drawdown reached">>
       ELSE IF Abs(pf.total_pnl_usd) >= max_loss /\ pf.total_pnl_usd < 0
       THEN <<TRUE, "Max loss reached">>
       ELSE <<FALSE, None>>

\* ------------------------------------------------------------ state machine
\* portfolio, trades, orders: the PaperTrader's fields.  nextId: the next
\* unused identifier (uuid4 never repeats).  lastOp, lastTrade, lastBooks,
\* lastArg, lastRet: the last call, what it was given and what it returned.
\* applied: the profits applied to the portfolio since construction or the
\* last reset; calls: the execute_arbitrage calls since then.  steps: the
\* calls made so far.
NoTrade == [status |-> "none"]

NoArg == [currency |-> "", amount |-> 0]

\* inflight: the execute_arbitrage calls suspended in _simulate_latency.
\* recorded: a second Portfolio, updated through the other method.  main:
\* the position and the counters of main()'s loop.  riskManager: the
\* RiskManager's current_exposure and the Portfolio object it names.
\* detector: the ArbitrageDetector's exchanges and its last call.  calc: the
\* orderbook at hand and the last call of a stateless method on it.

\* main()'s loop before it is entered
NoMain == [pc |-> "init", exit |-> "none", iteration |-> 0, symbol |-> 1,
           opportunities |-> <<>>, opportunities_found |-> 0, trades_executed |-> 0]

NoScan == [exchanges |-> <<>>, initialized |-> FALSE, op |-> "none", symbols |-> <<>>,
           market |-> <<>>, failed |-> <<>>, ret |-> Returned(<<>>)]

EmptyBook == [bids |-> <<>>, asks |-> <<>>]

traderVars == <<portfolio, trades, orders, nextId, lastOp, lastTrade, lastBooks, lastArg, lastRet, applied, calls, steps>>

Init ==
    /\ trades = EmptyDict
    /\ orders = EmptyDict
    /\ portfolio = initialize_portfolio
    /\ nextId = 1
    /\ lastOp = "init"
    /\ lastTrade = NoTrade
    /\ lastBooks = <<>>
    /\ lastArg = NoArg
    /\ lastRet = "none"
    /\ applied = <<>>
    /\ calls = 0
    /\ steps = 0
    /\ inflight = {}
    /\ recorded = initialize_portfolio
    /\ main = NoMain
    /\ riskManager = RiskManager
    /\ detector = NoScan
    /\ calc = [orderbook |-> EmptyBook, op |-> "none", args |-> <<>>, ret |-> Returned(0)]

\* await paper_trader.execute_arbitrage(opportunity, buy_orderbook, sell_orderbook)
Execute(opportunity, books, rf) ==
    /\ steps < MaxSteps
    /\ \E r \in {execute_arbitrage(portfolio, nextId, opportunity, books[1], books[2], rf[1], rf[2])} :
          /\ portfolio' = r.portfolio
          /\ \E st \in {store_trade(trades, orders, r.trade)} :
                /\ trades' = st.trades
                /\ orders' = st.orders
          /\ lastTrade' = r.trade
          /\ applied' = IF r.trade.status = "completed"
                        THEN Append(applied, r.trade.net_profit) ELSE applied
    /\ nextId' = nextId + 3
    /\ lastOp' = "execute_arbitrage"
    /\ lastBooks' = books
    /\ lastArg' = NoArg
    /\ lastRet' = "none"
    /\ calls' = calls + 1
    /\ steps' = steps + 1
    /\ UNCHANGED <<inflight, recorded, main, riskManager, detector, calc>>

\* paper_trader.portfolio.record_trade(profit)
RecordTrade(profit) ==
    /\ steps < MaxSteps
    /\ main.pc = "init"
    /\ portfolio' = record_trade(portfolio, profit)
    /\ applied' = Append(applied, profit)
    /\ lastOp' = "record_trade"
    /\ lastArg' = [currency |-> "", amount |-> profit]
    /\ lastTrade' = NoTrade
    /\ lastBooks' = <<>>
    /\ lastRet' = "none"
    /\ steps' = steps + 1
    /\ UNCHANGED <<trades, orders, nextId, calls, inflight, recorded, main, riskManager, detector, calc>>

\* paper_trader.reset()
Reset ==
    /\ steps < MaxSteps
    /\ LET r == reset(trades, orders, portfolio)
       IN /\ trades' = r.trades
          /\ orders' = r.orders
          /\ portfolio' = r.portfolio
    /\ applied' = <<>>
    /\ calls' = 0
    /\ lastOp' = "reset"
    /\ lastArg' = NoArg
    /\ lastTrade' = NoTrade
    /\ lastBooks' = <<>>
    /\ lastRet' = "none"
    /\ steps' = steps + 1
    /\ riskManager' = portfolio_replaced(riskManager, portfolio)
    /\ UNCHANGED <<nextId, inflight, recorded, main, detector, calc>>

\* what every Balance / balance call leaves alone
BalanceFrame(op, currency, amount, ret) ==
    /\ steps < MaxSteps
    /\ lastOp' = op
    /\ lastArg' = [currency |-> currency, amount |-> amount]
    /\ lastRet' = ret
    /\ lastTrade' = NoTrade
    /\ lastBooks' = <<>>
    /\ steps' = steps + 1
    /\ UNCHANGED <<trades, orders, nextId, applied, calls, inflight, recorded, main, riskManager, detector, calc>>

\* portfolio.balances[currency].lock(amount)
Lock(currency, amount) ==
    /\ currency \in DOMAIN portfolio.balances
    /\ LET r == lock(portfolio.balances[currency], amount)
       IN /\ portfolio' = [portfolio EXCEPT !.balances[currency] = r.balance]
          /\ BalanceFrame("lock", currency, amount, r.ret)

\* portfolio.balances[currency].unlock(amount)
Unlock(currency, amount) ==
    /\ currency \in DOMAIN portfolio.balances
    /\ portfolio' = [portfolio EXCEPT !.balances[currency] = unlock(@, amount)]
    /\ BalanceFrame("unlock", currency, amount, "none")

\* portfolio.balances[currency].fill(locked_amount, received_amount)
Fill(currency, amount) ==
    /\ currency \in DOMAIN portfolio.balances
    /\ portfolio' = [portfolio EXCEPT !.balances[currency] = fill(@, amount, amount)]
    /\ BalanceFrame("fill", currency, amount, "none")

\* portfolio.add_balance(currency, amount)
AddBalance(currency, amount) ==
    /\ portfolio' = [portfolio EXCEPT !.balances = add_balance(@, currency, amount)]
    /\ BalanceFrame("add_balance", currency, amount, "none")

\* portfolio.subtract_balance(currency, amount)
SubtractBalance(currency, amount) ==
    LET r == subtract_balance(portfolio.balances, currency, amount)
    IN /\ portfolio' = [portfolio EXCEPT !.balances = r.balances]
       /\ BalanceFrame("subtract_balance", currency, amount, r.ret)

\* amounts and currencies of the balance calls
Amounts == { 0 - 5, 3, 7 }

Currencies == { "BTC", "SOL" }

Next ==
    \/ \E opportunity \in Opportunities, books \in BookPairs, rf \in RandomDraws :
           Execute(opportunity, books, rf)
    \/ \E profit \in Profits : RecordTrade(profit * MoneyScale)
    \/ Reset
    \/ Lock("BTC", 3)
    \/ AddBalance("SOL", 3)

Spec == Init /\ [][Next]_vars

\* the balance calls alone, with negative amounts among the arguments
NextBalance ==
    \E currency \in Currencies, amount \in Amounts :
        \/ Lock(currency, amount)
        \/ Unlock(currency, amount)
        \/ Fill(currency, amount)
        \/ AddBalance(currency, amount)
        \/ SubtractBalance(currency, amount)

SpecBalance == Init /\ [][NextBalance]_vars

\* ------------------------------------------------- the detector's scans
Exchanges == { "binance", "kraken", "coinbase" }

Symbols == <<"BTC/USDT", "ETH/USDT">>

\* what _fetch_market_data returns for one exchange; fee is get_fee * 100
MarketData(ticker, orderbook, fee) == [ticker |-> ticker, orderbook |-> orderbook, fee |-> fee]

\* ETH/USDT books around 1000 USD
EthBook(bid, ask) == [bids |-> <<Level(bid, 40)>>, asks |-> <<Level(ask, 40)>>]

\* half an ETH on each side
EthBookSmall == [bids |-> <<Level(1010, 10)>>, asks |-> <<Level(1020, 10)>>]

\* a bad tick: the book's best ask is priced 0 while the ticker still quotes 1000
EthBookZeroAsk == [bids |-> <<Level(990, 40)>>, asks |-> <<Level(0, 40), Level(1000, 40)>>]

BtcMarket ==
    [exchange \in Exchanges |->
        CASE exchange = "binance" -> MarketData(Ticker(19900, 20000, 40, 40), BuyBookDeep, 1)
          [] exchange = "kraken" -> MarketData(Ticker(20400, 20500, 40, 40), SellBookDeep, 1)
          [] exchange = "coinbase" -> MarketData(Ticker(20400, 20500, 10, 40), SellBookThin, 1)]

EthMarket(binance_book) ==
    [exchange \in Exchanges |->
        CASE exchange = "binance" -> MarketData(Ticker(990, 1000, 40, 40), binance_book, 1)
          [] exchange = "kraken" -> MarketData(Ticker(1020, 1030, 40, 40), EthBook(1020, 1030), 1)
          [] exchange = "coinbase" -> MarketData(Ticker(1010, 1020, 40, 40), EthBookSmall, 1)]

\* market[symbol][exchange]: the market at the time of a scan
Markets ==
    { [symbol \in {"BTC/USDT", "ETH/USDT"} |->
          IF symbol = "BTC/USDT" THEN BtcMarket ELSE EthMarket(binance_book)]
      : binance_book \in {EthBook(990, 1000), EthBookZeroAsk} }

\* the exchanges whose connection, or whose fetch, raises
Failures == { {}, {"binance"}, {"kraken"}, {"kraken", "coinbase"} }

\* the lists handed to initialize
ExchangeLists ==
    { <<"binance">>, <<"kraken", "binance">>, <<"binance", "kraken", "coinbase">> }

\* await detector.initialize(exchanges)
Initialize(exchanges, unreachable) ==
    /\ detector' = [NoScan EXCEPT
                      !.exchanges = initialize(detector.exchanges, exchanges, unreachable),
                      !.initialized = TRUE,
                      !.op = "initialize"]
    /\ UNCHANGED <<traderVars, inflight, recorded, main, riskManager, calc>>

\* await detector.scan_cross_exchange_opportunities(symbol)
ScanCrossExchange(symbol, market, failed) ==
    /\ detector' = [exchanges |-> detector.exchanges,
                    initialized |-> detector.initialized,
                    op |-> "scan_cross_exchange_opportunities",
                    symbols |-> <<symbol>>, market |-> market,
                    failed |-> [x \in {symbol} |-> failed],
                    ret |-> scan_cross_exchange_opportunities(detector.exchanges, symbol,
                                                              market, failed, 1)]
    /\ UNCHANGED <<traderVars, inflight, recorded, main, riskManager, calc>>

\* await detector.scan_all_symbols(symbols)
ScanAllSymbols(symbols, market, failed) ==
    /\ detector' = [exchanges |-> detector.exchanges,
                    initialized |-> detector.initialized,
                    op |-> "scan_all_symbols",
                    symbols |-> symbols, market |-> market, failed |-> failed,
                    ret |-> scan_all_symbols(detector.exchanges, symbols, market,
                                             failed, 1, <<>>)]
    /\ UNCHANGED <<traderVars, inflight, recorded, main, riskManager, calc>>

NextScan ==
    \/ \E exchanges \in ExchangeLists, unreachable \in Failures :
           Initialize(exchanges, unreachable)
    \/ \E i \in 1..Len(Symbols), market \in Markets, failed \in Failures :
           ScanCrossExchange(Symbols[i], market, failed)
    \/ \E market \in Markets, failed \in [{"BTC/USDT", "ETH/USDT"} -> Failures] :
           ScanAllSymbols(Symbols, market, failed)

SpecScan == Init /\ [][NextScan]_vars

\* ------------------------------------------------------ the risk manager
\* the fields of an opportunity can_trade reads: 0.05 or 0.1 BTC at 20000,
\* a risk score in hundredths, a net profit in hundredths of a percent
RiskOpp(volume, risk, profit) ==
    [id |-> "opp-risk", buy_price |-> 20000 * MoneyScale, recommended_volume |-> volume,
     risk_score |-> risk * (RiskScale \div 100),
     net_profit_percent |-> profit * (PctScale \div 100)]

RiskOpportunities ==
    { RiskOpp(volume, risk, profit) :
          volume \in {1, 2}, risk \in {80, 81}, profit \in {9, 10} }

\* trade values handed to update_exposure, in USD
Exposures == { 500, 4000 }

\* risk_manager.can_trade(opportunity)
CanTrade(opportunity) ==
    /\ steps < MaxSteps
    /\ main.pc = "init"
    /\ lastOp' = "can_trade"
    /\ lastArg' = opportunity
    /\ lastRet' = can_trade(risk_manager_portfolio(riskManager, portfolio),
                         riskManager.current_exposure, opportunity)
    /\ lastTrade' = NoTrade
    /\ lastBooks' = <<>>
    /\ steps' = steps + 1
    /\ UNCHANGED <<portfolio, trades, orders, nextId, applied, calls, inflight, recorded, main, riskManager, detector, calc>>

\* risk_manager.update_exposure(trade_value, is_open)
UpdateExposure(value, is_open) ==
    /\ steps < MaxSteps
    /\ main.pc = "init"
    /\ riskManager' = [riskManager EXCEPT
                         !.current_exposure = update_exposure(@, value, is_open)]
    /\ lastOp' = "update_exposure"
    /\ lastArg' = [currency |-> "", amount |-> value]
    /\ lastRet' = "none"
    /\ lastTrade' = NoTrade
    /\ lastBooks' = <<>>
    /\ steps' = steps + 1
    /\ UNCHANGED <<portfolio, trades, orders, nextId, applied, calls, inflight, recorded, main, detector, calc>>

\* risk_manager.check_stop_loss()
CheckStopLoss ==
    /\ steps < MaxSteps
    /\ main.pc = "init"
    /\ lastOp' = "check_stop_loss"
    /\ lastArg' = NoArg
    /\ lastRet' = check_stop_loss(risk_manager_portfolio(riskManager, portfolio))
    /\ lastTrade' = NoTrade
    /\ lastBooks' = <<>>
    /\ steps' = steps + 1
    /\ UNCHANGED <<portfolio, trades, orders, nextId, applied, calls, inflight, recorded, main, riskManager, detector, calc>>

NextRisk ==
    \/ \E opportunity \in RiskOpportunities : CanTrade(opportunity)
    \/ \E value \in Exposures, is_open \in BOOLEAN :
           UpdateExposure(value * MoneyScale, is_open)
    \/ \E profit \in Profits : RecordTrade(profit * MoneyScale)

SpecRisk == Init /\ [][NextRisk]_vars

\* ------------------------------------------- the stateless methods on a book
\* books around 100 USD with a few twentieths per level
BookFlat == [bids |-> <<Level(100, 4)>>, asks |-> <<Level(101, 4)>>]

BookLadder == [bids |-> <<Level(100, 2), Level(99, 2)>>, asks |-> <<Level(101, 1), Level(102, 3)>>]

\* the second level is far from the first
BookSteep == [bids |-> <<Level(98, 2), Level(20, 2)>>, asks |-> <<Level(100, 2), Level(400, 2)>>]

\* a bad tick: levels priced 0
BookZeroPrice == [bids |-> <<Level(0, 2)>>, asks |-> <<Level(0, 2), Level(100, 2)>>]

BookOneSided == [bids |-> <<>>, asks |-> <<Level(100, 3)>>]

\* 0.95 of a 1.0 order on each side
BookThin == [bids |-> <<Level(100, 19)>>, asks |-> <<Level(100, 19)>>]

\* asks below the bids of the other books, in three levels
BookCheap == [bids |-> <<Level(94, 3)>>, asks |-> <<Level(95, 1), Level(96, 3), Level(99, 2)>>]

CalcBooks ==
    { EmptyBook, BookFlat, BookLadder, BookSteep, BookZeroPrice, BookOneSided, BookThin,
      BookCheap }

Sides == { "buy", "sell" }

\* requested volumes of orders: the small ones and 1.0
OrderVolumes == (0..MaxVolume) \cup { VolScale }

\* expected prices of orders, in USD; 0 is an order without one
ExpectedPrices == { 0, 99, 100, 102 }

Tickers == { Ticker(0, 0, 0, 0), Ticker(99, 100, 4, 4), Ticker(102, 103, 4, 4) }

\* prices of the three legs of a triangle
TrianglePrices == { 0, 1, 2 }

\* profit and slippage percentages and volumes handed to _calculate_risk_score
RiskProfits == { 0 - 100, 0, 5, 20 }

RiskSlippages == { 0 - 10, 0, 1, 50 }

RiskVolumes == { 0 - 200, 0, 20, 4000 }

\* an Order as _create_paper_order builds it
CalcOrder(side, requested_volume, average_fill_price) ==
    [id |-> 1, opportunity_id |-> "opp-calc", side |-> side,
     requested_volume |-> requested_volume, filled_volume |-> 0,
     average_fill_price |-> average_fill_price, status |-> "pending",
     fee_paid |-> 0, would_have_executed |-> TRUE, simulated_slippage |-> 0]

\* the trader, the risk manager and the detector as constructed
InitObjects ==
    /\ trades = EmptyDict
    /\ orders = EmptyDict
    /\ portfolio = initialize_portfolio
    /\ nextId = 1
    /\ lastOp = "init"
    /\ lastTrade = NoTrade
    /\ lastBooks = <<>>
    /\ lastArg = NoArg
    /\ lastRet = "none"
    /\ applied = <<>>
    /\ calls = 0
    /\ steps = 0
    /\ inflight = {}
    /\ recorded = initialize_portfolio
    /\ main = NoMain
    /\ riskManager = RiskManager
    /\ detector = NoScan

InitCalc ==
    /\ InitObjects
    /\ \E orderbook \in CalcBooks :
           calc = [orderbook |-> orderbook, op |-> "none", args |-> <<>>, ret |-> Returned(0)]

\* a call with the orderbook at hand: what it was given and what it returned
\* or raised
Call(orderbook, op, args, ret) ==
    [orderbook |-> orderbook, op |-> op, args |-> args, ret |-> ret]

\* orderbook.get_executable_price(side, volume)
GetExecutablePrice(side, volume) ==
    /\ calc' = Call(calc.orderbook, "get_executable_price", [side |-> side, volume |-> volume],
               Returned(get_executable_price(calc.orderbook, side, volume)))
    /\ UNCHANGED <<traderVars, inflight, recorded, main, riskManager, detector>>

\* calculator.estimate_slippage(orderbook, side, volume)
EstimateSlippage(side, volume) ==
    /\ calc' = Call(calc.orderbook, "estimate_slippage", [side |-> side, volume |-> volume],
               Returned(estimate_slippage(calc.orderbook, side, volume)))
    /\ UNCHANGED <<traderVars, inflight, recorded, main, riskManager, detector>>

\* validator.estimate_fill_probability(order, orderbook, side)
EstimateFillProbability(side, requested_volume) ==
    /\ calc' = Call(calc.orderbook, "estimate_fill_probability",
               [side |-> side, order |-> CalcOrder(side, requested_volume, 0)],
               Returned(estimate_fill_probability(CalcOrder(side, requested_volume, 0),
                                                  calc.orderbook, side)))
    /\ UNCHANGED <<traderVars, inflight, recorded, main, riskManager, detector>>

\* validator.would_have_executed(order, orderbook, side)
WouldHaveExecuted(side, requested_volume, average_fill_price) ==
    /\ calc' = Call(calc.orderbook, "would_have_executed",
               [side |-> side, order |-> CalcOrder(side, requested_volume, average_fill_price)],
               Returned(would_have_executed(CalcOrder(side, requested_volume, average_fill_price),
                                            calc.orderbook, side)))
    /\ UNCHANGED <<traderVars, inflight, recorded, main, riskManager, detector>>

\* calculator.calculate_max_executable_volume(orderbook, sell_orderbook, ...)
MaxExecutableVolume(sell_orderbook) ==
    /\ calc' = Call(calc.orderbook, "calculate_max_executable_volume",
               [sell_orderbook |-> sell_orderbook],
               calculate_max_executable_volume(calc.orderbook, sell_orderbook,
                                               MIN_PROFIT_THRESHOLD_PERCENT, 1, 1))
    /\ UNCHANGED <<traderVars, inflight, recorded, main, riskManager, detector>>

\* calculator.calculate_cross_exchange_profit(buy_ticker, sell_ticker, ...)
CrossExchangeProfit(buy_ticker, sell_ticker, volume) ==
    /\ calc' = Call(calc.orderbook, "calculate_cross_exchange_profit",
               [buy_ticker |-> buy_ticker, sell_ticker |-> sell_ticker, volume |-> volume],
               Returned(calculate_cross_exchange_profit(buy_ticker, sell_ticker, 1, 1, volume)))
    /\ UNCHANGED <<traderVars, inflight, recorded, main, riskManager, detector>>

\* calculator.calculate_triangular_profit(price_ab, price_bc, price_ca, fee)
TriangularProfit(price_ab, price_bc, price_ca) ==
    /\ calc' = Call(calc.orderbook, "calculate_triangular_profit",
               [price_ab |-> price_ab, price_bc |-> price_bc, price_ca |-> price_ca],
               Returned(calculate_triangular_profit(price_ab, price_bc, price_ca, 1)))
    /\ UNCHANGED <<traderVars, inflight, recorded, main, riskManager, detector>>

\* detector._calculate_risk_score(profit_percent, slippage_percent, volume)
RiskScore(profit_percent, slippage_percent, volume) ==
    /\ calc' = Call(calc.orderbook, "calculate_risk_score",
               [profit_percent |-> profit_percent, slippage_percent |-> slippage_percent,
                volume |-> volume],
               Returned(calculate_risk_score(profit_percent, slippage_percent, volume)))
    /\ UNCHANGED <<traderVars, inflight, recorded, main, riskManager, detector>>

NextCalc ==
    \/ \E side \in Sides, volume \in 0..MaxVolume : GetExecutablePrice(side, volume)
    \/ \E side \in Sides, volume \in 0..MaxVolume : EstimateSlippage(side, volume)
    \/ \E side \in Sides, volume \in OrderVolumes : EstimateFillProbability(side, volume)
    \/ \E side \in Sides, volume \in OrderVolumes, price \in ExpectedPrices :
           WouldHaveExecuted(side, volume, price * MoneyScale)
    \/ \E sell_orderbook \in CalcBooks : MaxExecutableVolume(sell_orderbook)
    \/ \E buy_ticker \in Tickers, sell_ticker \in Tickers, volume \in {0, VolScale} :
           CrossExchangeProfit(buy_ticker, sell_ticker, volume)
    \/ \E ab \in TrianglePrices, bc \in TrianglePrices, ca \in TrianglePrices :
           TriangularProfit(ab * MoneyScale, bc * MoneyScale, ca * MoneyScale)
    \/ \E profit \in RiskProfits, slippage \in RiskSlippages, volume \in RiskVolumes :
           RiskScore(profit * PctScale, slippage * PctScale, volume)

SpecCalc == InitCalc /\ [][NextCalc]_vars

\* ------------------------------------------ concurrent execute_arbitrage
\* Several execute_arbitrage coroutines run on one PaperTrader under one
\* event loop.  A coroutine gives up control only at the asyncio.sleep of
\* _simulate_latency (_create_paper_order is declared async but awaits
\* nothing), so a call is two steps: Begin up to the sleep, Complete from the
\* wake-up to the return.  The loop may wake the sleeping calls in any order.

\* the calls made: an opportunity and the two orderbooks handed over with it
ConcurrentCalls ==
    { <<Opp("opp-wide", 20000, 20400, VolScale, 5, 5), <<BuyBookDeep, SellBookDeep>>>>,
      <<Opp("opp-costly", 20000, 20400, VolScale, 5, 15), <<BuyBookDeep, SellBookDeep>>>>,
      <<Opp("opp-wide", 20000, 20400, VolScale, 5, 5), <<BuyBookShort, SellBookDeep>>>> }

\* execute_arbitrage up to `await asyncio.sleep(latency_ms / 1000)`: the call
\* holds its arguments and has touched nothing of the trader
Begin(opportunity, books) ==
    /\ steps < MaxSteps
    /\ inflight' = inflight \cup {[n |-> steps, opportunity |-> opportunity, books |-> books]}
    /\ steps' = steps + 1
    /\ UNCHANGED <<portfolio, trades, orders, nextId, lastOp, lastTrade, lastBooks,
                   lastArg, lastRet, applied, calls, recorded, main, riskManager,
                   detector, calc>>

\* execute_arbitrage from the wake-up to `return trade`, on the portfolio and
\* the history maps as they are then
Complete(call, rf) ==
    /\ call \in inflight
    /\ inflight' = inflight \ {call}
    /\ \E r \in {execute_arbitrage(portfolio, nextId, call.opportunity,
                                   call.books[1], call.books[2], rf[1], rf[2])} :
          /\ portfolio' = r.portfolio
          /\ \E st \in {store_trade(trades, orders, r.trade)} :
                /\ trades' = st.trades
                /\ orders' = st.orders
          /\ lastTrade' = r.trade
          /\ applied' = IF r.trade.status = "completed"
                        THEN Append(applied, r.trade.net_profit) ELSE applied
    /\ nextId' = nextId + 3
    /\ lastOp' = "execute_arbitrage"
    /\ lastBooks' = call.books
    /\ lastArg' = [currency |-> "", amount |-> call.n]
    /\ calls' = calls + 1
    /\ UNCHANGED <<lastRet, steps, recorded, main, riskManager, detector, calc>>

NextConc ==
    \/ \E c \in ConcurrentCalls : Begin(c[1], c[2])
    \/ \E n \in 0..(MaxSteps - 1), c \in ConcurrentCalls, rf \in RandomDraws :
           Complete([n |-> n, opportunity |-> c[1], books |-> c[2]], rf)

SpecConc == Init /\ [][NextConc]_vars

\* ------------------------------- record_trade and _update_portfolio
\* Two Portfolio objects that start equal: each profit is applied to
\* portfolio and to recorded, to each through Portfolio.record_trade or
\* through PaperTrader._update_portfolio.

\* Portfolio() with the fields' defaults
PortfolioDefaults ==
    [initialize_portfolio EXCEPT
        !.balances = EmptyDict, !.total_value_usd = 0, !.initial_value_usd = 0]

UpdateMethods == { "record_trade", "_update_portfolio" }

\* portfolio.record_trade(profit), or trader._update_portfolio(.., profit) on
\* a trader whose portfolio is pf
apply_profit(method, pf, profit) ==
    IF method = "record_trade" THEN record_trade(pf, profit)
    ELSE update_portfolio(pf, profit)

InitEquiv ==
    /\ trades = EmptyDict
    /\ orders = EmptyDict
    /\ portfolio \in { initialize_portfolio, PortfolioDefaults }
    /\ recorded = portfolio
    /\ nextId = 1
    /\ lastOp = "init"
    /\ lastTrade = NoTrade
    /\ lastBooks = <<>>
    /\ lastArg = NoArg
    /\ lastRet = "none"
    /\ applied = <<>>
    /\ calls = 0
    /\ steps = 0
    /\ inflight = {}
    /\ main = NoMain
    /\ riskManager = RiskManager
    /\ detector = NoScan
    /\ calc = [orderbook |-> EmptyBook, op |-> "none", args |-> <<>>, ret |-> Returned(0)]

\* the same profit applied to both portfolios
ApplyProfit(profit, method, other_method) ==
    /\ steps < MaxSteps
    /\ portfolio' = apply_profit(method, portfolio, profit)
    /\ recorded' = apply_profit(other_method, recorded, profit)
    /\ applied' = Append(applied, profit)
    /\ lastOp' = method
    /\ lastArg' = [currency |-> other_method, amount |-> profit]
    /\ steps' = steps + 1
    /\ UNCHANGED <<trades, orders, nextId, lastTrade, lastBooks, lastRet, calls, inflight,
                   main, riskManager, detector, calc>>

NextEquiv ==
    \E profit \in Profits, method \in UpdateMethods, other_method \in UpdateMethods :
        ApplyProfit(profit * MoneyScale, method, other_method)

SpecEquiv == InitEquiv /\ [][NextEquiv]_vars

\* --------------------------------------------- a PaperTrader on its own
\* execute_arbitrage and reset calls, one after the other, on one PaperTrader
\* whose portfolio a RiskManager was constructed from.
NextTrader ==
    \/ \E opportunity \in Opportunities, books \in BookPairs, rf \in RandomDraws :
           Execute(opportunity, books, rf)
    \/ Reset

SpecTrader == Init /\ [][NextTrader]_vars

\* ------------------------------------------------------------- main()
\* The detector, the paper trader and the risk manager as main() wires them,
\* and main's scan loop.  Before the loop is entered (main.pc = "init") the
\* risk manager and the portfolio may be called directly instead.
\* main: pc is the loop's position ("scan": before the scan of symbol,
\* "opportunity": inside `for opp in opportunities`, "stop_loss": after the
\* symbols, "stopped": after a break), exit says which break was taken.

\* the iterations of `while True` a run is followed for
MaxIterations == 17

\* main() lists Exchange.BINANCE alone; a second exchange is what gives a
\* scan pairs to compare
MainExchangeLists == { <<"binance">>, <<"binance", "kraken">> }

\* a symbol quoted around 500 USDT: 2.0 units on every side, binance's ticker
\* asking 500 with top_ask on top of its book, the others bidding sell_bid
MainSymbolMarket(sell_bid, top_ask) ==
    [exchange \in Exchanges |->
        IF exchange = "binance"
        THEN MarketData(Ticker(495, 500, 40, 40), [bids |-> <<Level(495, 40)>>,
                                                   asks |-> <<Level(top_ask, 40)>>], 1)
        ELSE MarketData(Ticker(sell_bid, sell_bid + 5, 40, 40),
                        [bids |-> <<Level(sell_bid, 40)>>,
                         asks |-> <<Level(sell_bid + 5, 40)>>], 1)]

\* the market at the time of a scan: no spread, a 1 % spread, and a 1 % spread
\* with a bad tick (a best ask priced 0) in binance's book
MainMarkets ==
    { [symbol \in {"BTC/USDT", "ETH/USDT"} |-> MainSymbolMarket(quote[1], quote[2])]
      : quote \in { <<496, 500>>, <<505, 500>>, <<505, 0>> } }

\* the orderbooks get_orderbook returns by the time the trade is placed: the
\* top levels have shrunk to 0.05
MainBooks ==
    << [bids |-> <<Level(495, 1)>>, asks |-> <<Level(500, 1), Level(501, 200)>>],
       [bids |-> <<Level(505, 1), Level(504, 200)>>, asks |-> <<Level(510, 1)>>] >>

\* profits recorded directly on the portfolio, in USD
StopProfits == { 0 - 1000, 10 }

\* the end of `for opp in opportunities`, or an exception caught by the
\* `except Exception` of the symbol: on to the next symbol, or to the
\* stop-loss check after the last one
next_symbol(m) ==
    IF m.symbol < Len(Symbols)
    THEN [m EXCEPT !.pc = "scan", !.symbol = @ + 1, !.opportunities = <<>>]
    ELSE [m EXCEPT !.pc = "stop_loss", !.opportunities = <<>>]

\* `continue`, or the end of the loop body, with rest still to visit
next_opportunity(m, rest) ==
    IF rest = <<>> THEN next_symbol(m)
    ELSE [m EXCEPT !.pc = "opportunity", !.opportunities = rest]

\* mutant: the trade's value is added to the exposure
release_exposure_opens(current_exposure, opportunity) ==
    update_exposure(current_exposure, trade_value(opportunity), TRUE)

\* risk_manager.update_exposure(trade_value, is_open=False) of main
release_exposure(current_exposure, opportunity) ==
    update_exposure(current_exposure, trade_value(opportunity), FALSE)

\* main() up to the loop: the components are built and the exchanges connected
MainStart(exchanges) ==
    /\ main.pc = "init"
    /\ steps = 0
    /\ main' = [NoMain EXCEPT !.pc = "scan", !.iteration = 1]
    /\ detector' = [NoScan EXCEPT !.exchanges = initialize(<<>>, exchanges, {}),
                                  !.initialized = TRUE,
                                  !.op = "initialize"]
    /\ lastOp' = "main"
    /\ UNCHANGED <<portfolio, trades, orders, nextId, lastTrade, lastBooks, lastArg, lastRet,
                   applied, calls, steps, inflight, recorded, riskManager, calc>>

\* opportunities = await detector.scan_cross_exchange_opportunities(symbol)
MainScan(market, failed) ==
    /\ main.pc = "scan"
    /\ LET result == scan_cross_exchange_opportunities(detector.exchanges,
                         Symbols[main.symbol], market, failed, 1)
       IN /\ detector' = [exchanges |-> detector.exchanges,
                          initialized |-> detector.initialized,
                          op |-> "scan_cross_exchange_opportunities",
                          symbols |-> <<Symbols[main.symbol]>>, market |-> market,
                          failed |-> [x \in {Symbols[main.symbol]} |-> failed],
                          ret |-> IF result.raised THEN [Raised EXCEPT !.value = <<>>]
                                  ELSE result]
          /\ main' = IF result.raised THEN next_symbol(main)
                     ELSE next_opportunity(main, result.value)
    /\ lastOp' = "scan_cross_exchange_opportunities"
    /\ lastArg' = NoArg
    /\ lastRet' = "none"
    /\ lastTrade' = NoTrade
    /\ lastBooks' = <<>>
    /\ UNCHANGED <<portfolio, trades, orders, nextId, applied, calls, steps, inflight,
                   recorded, riskManager, calc>>

\* one pass of the body of `for opp in opportunities`; books are the
\* orderbooks the two get_orderbook calls return
MainOpportunity(books, rf) ==
    /\ main.pc = "opportunity"
    /\ LET opp == Head(main.opportunities)
           rest == Tail(main.opportunities)
           found == [main EXCEPT !.opportunities_found = @ + 1]
           verdict == can_trade(risk_manager_portfolio(riskManager, portfolio),
                                riskManager.current_exposure, opp)
           r == execute_arbitrage(portfolio, nextId, opp, books[1], books[2], rf[1], rf[2])
           st == store_trade(trades, orders, r.trade)
       IN IF ~verdict[1] \/ opp.net_profit_percent < MIN_PROFIT_THRESHOLD_PERCENT
          THEN /\ main' = next_opportunity(found, rest)
               /\ lastOp' = "can_trade"
               /\ lastArg' = opp
               /\ lastRet' = verdict
               /\ lastTrade' = NoTrade
               /\ lastBooks' = <<>>
               /\ UNCHANGED <<portfolio, trades, orders, nextId, applied, calls, riskManager>>
          ELSE /\ main' = next_opportunity([found EXCEPT !.trades_executed = @ + 1], rest)
               /\ portfolio' = r.portfolio
               /\ trades' = st.trades
               /\ orders' = st.orders
               /\ nextId' = nextId + 3
               /\ applied' = IF r.trade.status = "completed"
                             THEN Append(applied, r.trade.net_profit) ELSE applied
               /\ calls' = calls + 1
               /\ riskManager' =
                      IF r.trade.status = "completed"
                      THEN [riskManager EXCEPT
                              !.current_exposure = release_exposure(@, opp)]
                      ELSE riskManager
               /\ lastOp' = "execute_arbitrage"
               /\ lastArg' = opp
               /\ lastRet' = verdict
               /\ lastTrade' = r.trade
               /\ lastBooks' = books
    /\ UNCHANGED <<steps, inflight, recorded, detector, calc>>

\* the rest of the loop body: the stop-loss check, the duration check and the
\* sleep; duration_reached says whether elapsed >= duration > 0
MainCheckStopLoss(duration_reached) ==
    /\ main.pc = "stop_loss"
    /\ LET stop == check_stop_loss(risk_manager_portfolio(riskManager, portfolio))
       IN /\ stop[1] \/ duration_reached \/ main.iteration < MaxIterations
          /\ main' = IF stop[1] THEN [main EXCEPT !.pc = "stopped", !.exit = "stop_loss"]
                     ELSE IF duration_reached
                     THEN [main EXCEPT !.pc = "stopped", !.exit = "duration"]
                     ELSE [main EXCEPT !.pc = "scan", !.symbol = 1, !.iteration = @ + 1]
          /\ lastRet' = stop
    /\ lastOp' = "check_stop_loss"
    /\ lastArg' = NoArg
    /\ lastTrade' = NoTrade
    /\ lastBooks' = <<>>
    /\ UNCHANGED <<portfolio, trades, orders, nextId, applied, calls, steps, inflight,
                   recorded, riskManager, detector, calc>>

\* a step of main()
MainStep ==
    \/ \E exchanges \in MainExchangeLists : MainStart(exchanges)
    \/ \E market \in MainMarkets : MainScan(market, {})
    \/ \E rf \in RandomDraws : MainOpportunity(MainBooks, rf)
    \/ \E duration_reached \in BOOLEAN : MainCheckStopLoss(duration_reached)

NextMain ==
    \/ MainStep
    \/ \E opportunity \in RiskOpportunities : CanTrade(opportunity)
    \/ \E value \in Exposures, is_open \in BOOLEAN :
           UpdateExposure(value * MoneyScale, is_open)
    \/ \E profit \in StopProfits : RecordTrade(profit * MoneyScale)
    \/ CheckStopLoss

SpecMain == Init /\ [][NextMain]_vars

\* ------------------------------------------------------------------- claims
\* the deepest cumulative loss over the prefixes of a sequence of profits
RECURSIVE MaxPrefixDrawdown(_)
MaxPrefixDrawdown(ps) ==
    IF ps = <<>> THEN 0
    ELSE Max(MaxPrefixDrawdown(SubSeq(ps, 1, Len(ps) - 1)), Max(0, 0 - SumSeq(ps)))

\* C1: a Portfolio.record_trade call, whatever the profit, never lowers
\* max_drawdown_usd.
C1_DrawdownNeverDecreases ==
    [][lastOp' = "record_trade"
         => portfolio'.max_drawdown_usd >= portfolio.max_drawdown_usd]_vars

\* a profit recorded after a loss: the drawdown is kept above the current loss
C1_Witness ==
    /\ lastOp = "record_trade"
    /\ lastArg.amount > 0
    /\ portfolio.max_drawdown_usd > 0 - portfolio.total_pnl_usd
    /\ portfolio.max_drawdown_usd = 500 * MoneyScale

\* C2: total_trades = winning_trades + losing_trades always, and every trade
\* applied to the portfolio (a record_trade call or a completed
\* execute_arbitrage) adds exactly 1 to total_trades and 1 to winning_trades
\* when its net profit is > 0, to losing_trades otherwise.
C2_TradeCounters ==
    /\ [](portfolio.total_trades = portfolio.winning_trades + portfolio.losing_trades)
    /\ [][Len(applied') = Len(applied) + 1
            => /\ portfolio'.total_trades = portfolio.total_trades + 1
               /\ IF applied'[Len(applied')] > 0
                  THEN /\ portfolio'.winning_trades = portfolio.winning_trades + 1
                       /\ portfolio'.losing_trades = portfolio.losing_trades
                  ELSE /\ portfolio'.winning_trades = portfolio.winning_trades
                       /\ portfolio'.losing_trades = portfolio.losing_trades + 1]_vars

\* a completed losing paper trade, a zero-profit record and a winning one
C2_Witness ==
    /\ Len(applied) = 3
    /\ \E i, j, k \in 1..3 : applied[i] > 0 /\ applied[j] = 0 /\ applied[k] < 0
    /\ portfolio.winning_trades = 1
    /\ portfolio.losing_trades = 2
    /\ \E id \in DOMAIN trades : trades[id].status = "completed"

\* C3: an execute_arbitrage call that ends 'failed' changes no field of the
\* portfolio (P&L, value, counters, drawdown, balances).
C3_FailedTradeLeavesPortfolio ==
    [][(lastOp' = "execute_arbitrage" /\ steps' = steps + 1 /\ lastTrade'.status = "failed")
         => portfolio' = portfolio]_vars

\* a failed call on a portfolio that earlier calls have changed
C3_Witness ==
    /\ lastOp = "execute_arbitrage"
    /\ lastTrade.status = "failed"
    /\ portfolio.total_trades > 0
    /\ portfolio.total_pnl_usd # 0
    /\ "SOL" \in DOMAIN portfolio.balances

\* C4: the Trade execute_arbitrage returns is 'completed' exactly when both
\* legs pass would_have_executed against their orderbooks and 'failed'
\* otherwise; both_orders_would_have_executed says the same; a failed trade
\* has gross_profit, total_fees and net_profit 0, each failing leg FAILED and
\* a passing leg FILLED.
C4_TerminalStatus ==
    lastOp = "execute_arbitrage" =>
        LET t == lastTrade
            buy_ok == would_have_executed(t.buy_order, lastBooks[1], "buy")
            sell_ok == would_have_executed(t.sell_order, lastBooks[2], "sell")
        IN /\ t.status \in {"completed", "failed"}
           /\ (t.status = "completed") <=> (buy_ok /\ sell_ok)
           /\ t.both_orders_would_have_executed <=> (t.status = "completed")
           /\ t.status = "failed" =>
                 /\ t.gross_profit = 0 /\ t.total_fees = 0 /\ t.net_profit = 0
                 /\ t.buy_order.status = (IF buy_ok THEN "filled" ELSE "failed")
                 /\ t.sell_order.status = (IF sell_ok THEN "filled" ELSE "failed")

\* a failed trade whose buy leg passed and whose sell leg did not
C4_Witness ==
    /\ lastOp = "execute_arbitrage"
    /\ lastTrade.status = "failed"
    /\ lastTrade.buy_order.status = "filled"
    /\ lastTrade.sell_order.status = "failed"

\* C5: every execute_arbitrage call, completed or failed, stores the Trade
\* under its id and both Orders under theirs: after n calls since
\* construction or the last reset there are n trades and 2n orders.
C5_HistoryRecorded ==
    /\ Cardinality(DOMAIN trades) = calls
    /\ Cardinality(DOMAIN orders) = 2 * calls
    /\ \A id \in DOMAIN trades :
          /\ trades[id].id = id
          /\ trades[id].buy_order.id \in DOMAIN orders
          /\ trades[id].sell_order.id \in DOMAIN orders
          /\ orders[trades[id].buy_order.id] = trades[id].buy_order
          /\ orders[trades[id].sell_order.id] = trades[id].sell_order
    /\ lastOp = "execute_arbitrage" =>
          lastTrade.id \in DOMAIN trades /\ trades[lastTrade.id] = lastTrade

\* a failed and a completed trade, both in the history
C5_Witness ==
    /\ calls = 2
    /\ \E i, j \in DOMAIN trades : trades[i].status = "failed" /\ trades[j].status = "completed"
    /\ Cardinality(DOMAIN orders) = 4

\* C6: after reset() the engine is in the state of a fresh PaperTrader: no
\* trades, no orders, counters, P&L and drawdown 0, total_value_usd =
\* initial_value_usd = the configured balance, the configured balances; a
\* second reset changes nothing.
C6_ResetRestoresFreshState ==
    /\ [](lastOp = "reset" =>
            /\ DOMAIN trades = {} /\ DOMAIN orders = {}
            /\ portfolio.total_trades = 0 /\ portfolio.winning_trades = 0
            /\ portfolio.losing_trades = 0
            /\ portfolio.total_pnl_usd = 0 /\ portfolio.total_pnl_percent = 0
            /\ portfolio.realized_pnl = 0 /\ portfolio.unrealized_pnl = 0
            /\ portfolio.max_drawdown_usd = 0 /\ portfolio.max_drawdown_percent = 0
            /\ portfolio.total_value_usd = INITIAL_BALANCE_USD * MoneyScale
            /\ portfolio.initial_value_usd = INITIAL_BALANCE_USD * MoneyScale
            /\ DOMAIN portfolio.balances = {"USD", "BTC", "ETH", "USDT"}
            /\ portfolio.balances["USD"] = Balance(INITIAL_BALANCE_USD * MoneyScale, 0)
            /\ portfolio.balances["USDT"] = Balance(INITIAL_BALANCE_USD * MoneyScale, 0)
            /\ portfolio.balances["BTC"] = Balance(INITIAL_BALANCE_BTC * VolScale, 0)
            /\ portfolio.balances["ETH"] = Balance(INITIAL_BALANCE_ETH * VolScale, 0))
    /\ [][(lastOp = "reset" /\ lastOp' = "reset")
            => UNCHANGED <<portfolio, trades, orders>>]_vars

\* a reset after paper trades were executed
C6_Witness ==
    /\ lastOp = "reset"
    /\ nextId > 1
    /\ steps = MaxSteps

\* C7: after record_trade(p1) .. record_trade(pn) on a portfolio with zeroed
\* statistics, total_pnl_usd = realized_pnl = the sum, total_value_usd =
\* initial_value_usd + the sum, total_pnl_percent = total_pnl_usd /
\* initial_value_usd * 100, max_drawdown_usd = the deepest cumulative loss
\* over the prefixes and max_drawdown_percent = max_drawdown_usd /
\* initial_value_usd * 100; three +10 trades on 10000 give 3 trades, 30,
\* 0.3 % and no drawdown, one -500 trade gives 500 and 5 %.
C7_RecordTradeTotals ==
    /\ portfolio.total_trades = Len(applied)
    /\ portfolio.total_pnl_usd = SumSeq(applied)
    /\ portfolio.realized_pnl = SumSeq(applied)
    /\ portfolio.total_value_usd = portfolio.initial_value_usd + SumSeq(applied)
    /\ portfolio.total_pnl_percent = PercentOf(SumSeq(applied), portfolio.initial_value_usd)
    /\ portfolio.max_drawdown_usd = MaxPrefixDrawdown(applied)
    /\ portfolio.max_drawdown_percent
         = PercentOf(MaxPrefixDrawdown(applied), portfolio.initial_value_usd)
    /\ applied = <<10 * MoneyScale, 10 * MoneyScale, 10 * MoneyScale>> =>
          /\ portfolio.total_trades = 3
          /\ portfolio.total_pnl_usd = 30 * MoneyScale
          /\ 10 * portfolio.total_pnl_percent = 3 * PctScale
          /\ portfolio.max_drawdown_usd = 0
          /\ portfolio.max_drawdown_percent = 0
    /\ applied = <<(0 - 500) * MoneyScale>> =>
          /\ portfolio.max_drawdown_usd = 500 * MoneyScale
          /\ portfolio.max_drawdown_percent = 5 * PctScale

\* a loss of 500 followed by two profits of 10
C7_Witness ==
    /\ lastOp = "record_trade"
    /\ applied = <<(0 - 500) * MoneyScale, 10 * MoneyScale, 10 * MoneyScale>>

\* C8: win_rate is within [0, 100] in every reachable state and 0 when
\* total_trades = 0.
C8_WinRateRange ==
    /\ win_rate(portfolio) >= 0
    /\ win_rate(portfolio) <= 100 * PctScale
    /\ portfolio.total_trades = 0 => win_rate(portfolio) = 0

\* two wins in three trades
C8_Witness ==
    /\ portfolio.total_trades = 3
    /\ portfolio.winning_trades = 2
    /\ win_rate(portfolio) > 66 * PctScale
    /\ win_rate(portfolio) < 67 * PctScale

\* C9: available >= 0 and locked >= 0 hold for every balance after any lock,
\* unlock, fill, add_balance and subtract_balance calls with any amounts.
C9_BalancesNonNegative ==
    \A c \in DOMAIN portfolio.balances :
        portfolio.balances[c].available >= 0 /\ portfolio.balances[c].locked >= 0

\* C10: lock(amount) with available < amount returns False and changes
\* nothing; otherwise it returns True, moves exactly amount from available to
\* locked and keeps available + locked.
C10_LockContract ==
    [][(lastOp' = "lock" /\ steps' = steps + 1) =>
         LET c == lastArg'.currency
             amount == lastArg'.amount
             before == portfolio.balances[c]
             after == portfolio'.balances[c]
         IN IF before.available < amount
            THEN lastRet' = FALSE /\ after = before
            ELSE /\ lastRet' = TRUE
                 /\ after.available = before.available - amount
                 /\ after.locked = before.locked + amount
                 /\ after.available + after.locked = before.available + before.locked]_vars

\* a lock refused on a balance that an earlier lock had drawn down
C10_Witness ==
    /\ lastOp = "lock"
    /\ lastRet = FALSE
    /\ lastArg.amount > 0
    /\ portfolio.balances[lastArg.currency].locked > 0

\* the opportunities of a list without their identifiers
StripIds(opportunities) ==
    [i \in 1..Len(opportunities) |-> [opportunities[i] EXCEPT !.id = 0]]

\* the opportunities of the per-symbol scans that returned, in the order of
\* the symbols
RECURSIVE ReturnedScans(_, _)
ReturnedScans(symbols, d) ==
    IF symbols = <<>> THEN <<>>
    ELSE LET result == scan_cross_exchange_opportunities(d.exchanges, Head(symbols),
                           d.market, d.failed[Head(symbols)], 1)
         IN (IF result.raised THEN <<>> ELSE StripIds(result.value))
            \o ReturnedScans(Tail(symbols), d)

C12_TooFewExchangesReported ==
    (/\ detector.op \in {"scan_cross_exchange_opportunities", "scan_all_symbols"}
     /\ detector.initialized
     /\ Len(detector.exchanges) < 2)
        => detector.ret # Returned(<<>>)

\* C13: can_trade returns (True, "OK") exactly when the drawdown is below
\* the configured maximum, the notional recommended_volume * buy_price is at
\* most the maximum position size, current_exposure plus the notional is at
\* most the maximum exposure, the risk score is at most 0.8 and the net
\* profit is at least the threshold; otherwise it returns False with the
\* reason of the first check that fails, in that order; it changes neither
\* the portfolio nor current_exposure.
C13_CanTradeChecks ==
    [][(lastOp' = "can_trade" /\ steps' = steps + 1) =>
         LET opp == lastArg'
             notional == (opp.buy_price \div VolScale) * opp.recommended_volume
             drawdown_ok == portfolio.max_drawdown_percent < MAX_DRAWDOWN_PERCENT * PctScale
             position_ok == notional <= MAX_POSITION_SIZE_USD * MoneyScale
             exposure_ok == riskManager.current_exposure + notional
                                <= MAX_TOTAL_EXPOSURE_USD * MoneyScale
             risk_ok == 10 * opp.risk_score <= 8 * RiskScale
             profit_ok == opp.net_profit_percent >= MIN_PROFIT_THRESHOLD_PERCENT
         IN /\ lastRet' = <<TRUE, "OK">>
                  <=> (drawdown_ok /\ position_ok /\ exposure_ok /\ risk_ok /\ profit_ok)
            /\ lastRet'[1] = FALSE =>
                  lastRet'[2] = (CASE ~drawdown_ok -> "Max drawdown exceeded"
                                  [] drawdown_ok /\ ~position_ok -> "Position too large"
                                  [] drawdown_ok /\ position_ok /\ ~exposure_ok
                                        -> "Max exposure exceeded"
                                  [] drawdown_ok /\ position_ok /\ exposure_ok /\ ~risk_ok
                                        -> "Risk score too high"
                                  [] OTHER -> "Profit too low")
            /\ lastRet'[1] \in BOOLEAN
            /\ portfolio' = portfolio
            /\ riskManager' = riskManager]_vars

\* an opportunity that is too large, too risky and too thin at once, refused
\* for its size by a manager whose exposure has been raised
C13_Witness ==
    /\ lastOp = "can_trade"
    /\ lastRet = <<FALSE, "Position too large">>
    /\ 10 * lastArg.risk_score > 8 * RiskScale
    /\ lastArg.net_profit_percent < MIN_PROFIT_THRESHOLD_PERCENT
    /\ riskManager.current_exposure > 0
    /\ portfolio.max_drawdown_percent > 0

\* the levels a side walks, and all the volume they offer
SideLevels(orderbook, side) == IF side = "sell" THEN orderbook.bids ELSE orderbook.asks

RECURSIVE TotalVolume(_)
TotalVolume(levels) ==
    IF levels = <<>> THEN 0 ELSE Head(levels).volume + TotalVolume(Tail(levels))

\* C14: for a fixed orderbook and side estimate_slippage is non-decreasing in
\* the volume (0 <= v1 <= v2 gives estimate_slippage(v1) <= estimate_slippage(v2))
\* and is exactly 0 at volume 0.
C14_SlippageMonotonic ==
    /\ []((calc.op = "estimate_slippage" /\ calc.args.volume = 0) => calc.ret.value = 0)
    /\ [][(/\ calc.op = "estimate_slippage"
           /\ calc'.op = "estimate_slippage"
           /\ calc'.orderbook = calc.orderbook
           /\ calc'.args.side = calc.args.side
           /\ 0 <= calc.args.volume
           /\ calc.args.volume <= calc'.args.volume)
              => calc.ret.value <= calc'.ret.value]_vars

\* C15: get_executable_price returns (0, 0) when the side's level list is
\* empty, and for every requested volume up to the volume of the side's top
\* level an average price equal to the side's best price.
C15_TopLevelPrice ==
    calc.op = "get_executable_price" =>
        LET levels == SideLevels(calc.orderbook, calc.args.side)
        IN /\ levels = <<>> =>
                 calc.ret.value = [avg_price |-> 0, filled_volume |-> 0]
           /\ (levels # <<>> /\ calc.args.volume <= levels[1].volume) =>
                 calc.ret.value.avg_price = levels[1].price

\* C15 as amended: the same for every requested volume above 0.
C15_TopLevelPricePositive ==
    calc.op = "get_executable_price" =>
        LET levels == SideLevels(calc.orderbook, calc.args.side)
        IN /\ levels = <<>> =>
                 calc.ret.value = [avg_price |-> 0, filled_volume |-> 0]
           /\ (/\ levels # <<>>
               /\ 0 < calc.args.volume
               /\ calc.args.volume <= levels[1].volume) =>
                 /\ calc.ret.value.avg_price = levels[1].price
                 /\ calc.ret.value.filled_volume = calc.args.volume

\* a sell of the whole top bid level of a book whose best ask is another price
C15_Witness ==
    /\ calc.op = "get_executable_price"
    /\ calc.orderbook = BookLadder
    /\ calc.args.side = "sell"
    /\ calc.args.volume = 2
    /\ calc.ret.value.avg_price = 100 * MoneyScale

\* C16: _calculate_risk_score returns a value in [0, 1] for every profit,
\* slippage and volume, negative and large ones included.
C16_RiskScoreRange ==
    calc.op = "calculate_risk_score" =>
        /\ calc.ret.value >= 0
        /\ calc.ret.value <= RiskScale

\* a loss of 100 % with 50 % slippage on a negative volume: the weighted sum
\* is far above 1 and the score is 1
C16_Witness ==
    /\ calc.op = "calculate_risk_score"
    /\ calc.args.profit_percent = (0 - 100) * PctScale
    /\ calc.args.slippage_percent = 50 * PctScale
    /\ calc.args.volume < 0
    /\ calc.ret.value = RiskScale

\* C17: on a degenerate input (a ticker price of 0, a level priced 0, volume
\* 0, an empty bid or ask list) calculate_cross_exchange_profit,
\* calculate_max_executable_volume, estimate_slippage and
\* calculate_triangular_profit never raise and return their sentinel:
\* (0, 0, 0), volume 0, slippage 0 / 50 / 100, (0, False).
C17_DegenerateInputs ==
    /\ calc.op \in { "calculate_cross_exchange_profit", "calculate_max_executable_volume",
                     "estimate_slippage", "calculate_triangular_profit" }
          => ~calc.ret.raised
    /\ (/\ calc.op = "calculate_cross_exchange_profit"
        /\ (calc.args.buy_ticker.ask = 0 \/ calc.args.sell_ticker.bid = 0))
          => calc.ret.value = <<0, 0, 0>>
    /\ (/\ calc.op = "calculate_max_executable_volume"
        /\ \/ calc.orderbook.asks = <<>>
           \/ calc.args.sell_orderbook.bids = <<>>
           \/ calc.orderbook.asks[1].price = 0
           \/ calc.args.sell_orderbook.bids[1].price = 0)
          => calc.ret.value = 0
    /\ (/\ calc.op = "estimate_slippage"
        /\ \/ calc.args.volume = 0
           \/ SideLevels(calc.orderbook, calc.args.side) = <<>>
           \/ SideLevels(calc.orderbook, calc.args.side)[1].price = 0)
          => calc.ret.value \in { 0, 50 * PctScale, 100 * PctScale }
    /\ (/\ calc.op = "calculate_triangular_profit"
        /\ (calc.args.price_ab = 0 \/ calc.args.price_bc = 0 \/ calc.args.price_ca = 0))
          => calc.ret.value = <<0, FALSE>>

\* C18: estimate_fill_probability follows the tiers on the liquidity the book
\* offers on the order's side: at least 2x the requested volume gives 0.95;
\* at least 1x gives min(0.9, ratio * 0.5); less gives fill_ratio * 0.5; none
\* gives 0.
C18_FillProbabilityTiers ==
    (calc.op = "estimate_fill_probability" /\ calc.args.order.requested_volume > 0) =>
        LET requested == calc.args.order.requested_volume
            offered == TotalVolume(SideLevels(calc.orderbook, calc.args.side))
        IN calc.ret.value =
              (CASE offered = 0 -> 0
                 [] offered > 0 /\ offered >= 2 * requested -> (PctScale \div 100) * 95
                 [] offered > 0 /\ offered >= requested /\ offered < 2 * requested ->
                       Min((PctScale \div 10) * 9, (offered * (PctScale \div 2)) \div requested)
                 [] OTHER -> (offered * (PctScale \div 2)) \div requested)

\* C19: would_have_executed returns False exactly when the volume fillable by
\* walking the order's side is below 0.95 x requested_volume, or the order
\* has an expected price and the walked average price is above expected x
\* 1.01 (buy) or below expected x 0.99 (sell); it modifies neither the order
\* nor the orderbook.
C19_WouldHaveExecutedExact ==
    /\ [](calc.op = "would_have_executed" =>
            LET order == calc.args.order
                side == calc.args.side
                fillable == Min(order.requested_volume,
                                TotalVolume(SideLevels(calc.orderbook, side)))
                walked == get_executable_price(calc.orderbook, side,
                                               order.requested_volume).avg_price
                too_thin == 100 * fillable < 95 * order.requested_volume
                too_far == /\ order.average_fill_price # 0
                           /\ IF side = "buy"
                              THEN 100 * walked > 101 * order.average_fill_price
                              ELSE 100 * walked < 99 * order.average_fill_price
            IN /\ calc.ret.value = FALSE <=> (too_thin \/ too_far)
               /\ calc.ret.value = TRUE <=> ~(too_thin \/ too_far)
               /\ order.status = "pending" /\ order.filled_volume = 0)
    /\ [][calc'.op = "would_have_executed" => calc'.orderbook = calc.orderbook]_vars

\* a buy without an expected price that passes on liquidity alone, 0.95 of
\* the order being on offer
C19_Witness ==
    /\ calc.op = "would_have_executed"
    /\ calc.orderbook = BookThin
    /\ calc.args.side = "buy"
    /\ calc.args.order.requested_volume = VolScale
    /\ calc.args.order.average_fill_price = 0
    /\ calc.ret.value = TRUE

\* the net profits of the completed trades of a history map, in completion
\* order: a trade's identifier is drawn when the call completes, and the
\* model draws identifiers in increasing order
RECURSIVE ProfitsInCompletionOrder(_, _)
ProfitsInCompletionOrder(ts, ids) ==
    IF ids = {} THEN <<>>
    ELSE LET first == CHOOSE id \in ids : \A other \in ids : id <= other
         IN (IF ts[first].status = "completed" THEN <<ts[first].net_profit>> ELSE <<>>)
               \o ProfitsInCompletionOrder(ts, ids \ {first})

\* C20: with several execute_arbitrage calls in flight on one PaperTrader,
\* in every interleaving the portfolio is the result of applying the
\* successful trades' net profits one after another in completion order (no
\* update lost or applied twice), total_trades is the number of completed
\* trades, and every trade and both its orders are in the history maps.
C20_ConcurrentCallsSerialize ==
    LET ps == ProfitsInCompletionOrder(trades, DOMAIN trades)
    IN /\ calls + Cardinality(inflight) = steps
       /\ portfolio.total_trades = Len(ps)
       /\ portfolio.total_trades
            = Cardinality({id \in DOMAIN trades : trades[id].status = "completed"})
       /\ portfolio.winning_trades = Cardinality({i \in 1..Len(ps) : ps[i] > 0})
       /\ portfolio.losing_trades = Cardinality({i \in 1..Len(ps) : ps[i] <= 0})
       /\ portfolio.total_pnl_usd = SumSeq(ps)
       /\ portfolio.realized_pnl = SumSeq(ps)
       /\ portfolio.total_value_usd = initialize_portfolio.total_value_usd + SumSeq(ps)
       /\ portfolio.max_drawdown_usd = MaxPrefixDrawdown(ps)
       /\ portfolio.balances = initialize_portfolio.balances
       /\ Cardinality(DOMAIN trades) = calls
       /\ Cardinality(DOMAIN orders) = 2 * calls
       /\ \A id \in DOMAIN trades :
             /\ trades[id].buy_order.id # trades[id].sell_order.id
             /\ trades[id].buy_order.id \in DOMAIN orders
             /\ trades[id].sell_order.id \in DOMAIN orders
             /\ orders[trades[id].buy_order.id] = trades[id].buy_order
             /\ orders[trades[id].sell_order.id] = trades[id].sell_order

\* three calls were asleep at once; the one begun last woke first, the one
\* begun second woke next and the one begun first still sleeps; a loss and
\* then a profit have been applied
C20_Witness ==
    /\ steps = 3
    /\ calls = 2
    /\ \E call \in inflight : call.n = 0
    /\ lastOp = "execute_arbitrage"
    /\ lastArg.amount = 1
    /\ Len(applied) = 2
    /\ applied[1] < 0
    /\ applied[2] > 0
    /\ portfolio.total_pnl_usd > 0
    /\ portfolio.max_drawdown_usd = 0 - applied[1]

\* the argument bounded to [0, 1], in 1/(10 * PctScale)
clamp01(x) == Min(10 * PctScale, Max(0, x))

\* C22: the risk score is clamp01(0.3 * clamp01(1 - profit% / 10) + 0.4 *
\* clamp01(slippage% / 5) + 0.3 * clamp01(1 - volume / 10)) for every
\* input: each factor is clamped into [0, 1] before it is weighted.
C22_RiskScoreFactorsClamped ==
    calc.op = "calculate_risk_score" =>
        calc.ret.value =
            Min(RiskScale, Max(0,
                3 * clamp01(10 * PctScale - calc.args.profit_percent)
              + 4 * clamp01(2 * calc.args.slippage_percent)
              + 3 * clamp01(10 * PctScale - calc.args.volume * (PctScale \div VolScale))))

\* C23: every opportunity _check_pair emits has buy_price < sell_price, a
\* net_profit_percent (slippage of both legs subtracted) of at least the
\* minimum profit threshold, max_volume > 0, recommended_volume =
\* min(max_volume, MAX_POSITION_SIZE_USD / buy_price), hence recommended_volume
\* <= max_volume and recommended_volume * buy_price <= MAX_POSITION_SIZE_USD,
\* status DETECTED and expires_at = detected_at + 5000 ms.
C23_EmittedOpportunities ==
    (detector.op \in {"scan_cross_exchange_opportunities", "scan_all_symbols"}
       /\ ~detector.ret.raised) =>
        \A i \in 1..Len(detector.ret.value) :
            LET opp == detector.ret.value[i]
                max_position_volume ==
                    (MAX_POSITION_SIZE_USD * MoneyScale * VolScale) \div opp.buy_price
            IN /\ opp.buy_price < opp.sell_price
               /\ opp.net_profit_percent >= MIN_PROFIT_THRESHOLD_PERCENT
               /\ opp.max_volume > 0
               /\ opp.recommended_volume <= opp.max_volume
               /\ opp.recommended_volume <= max_position_volume
               /\ opp.recommended_volume = opp.max_volume
                     \/ opp.recommended_volume = max_position_volume
               /\ opp.status = "detected"
               /\ opp.expires_at = opp.detected_at + 5000

\* a scan of both symbols that emits an opportunity cut to the position size
\* and one that takes all the executable volume
C23_Witness ==
    /\ detector.op = "scan_all_symbols"
    /\ ~detector.ret.raised
    /\ \E i, j \in 1..Len(detector.ret.value) :
          /\ detector.ret.value[i].recommended_volume < detector.ret.value[i].max_volume
          /\ detector.ret.value[i].recommended_volume * 20000 = MAX_POSITION_SIZE_USD * VolScale
          /\ detector.ret.value[j].recommended_volume = detector.ret.value[j].max_volume
          /\ detector.ret.value[j].recommended_volume = 10

\* the volume of the first n levels of a list
RECURSIVE CumulativeVolume(_, _)
CumulativeVolume(levels, n) ==
    IF n = 0 THEN 0 ELSE levels[n].volume + CumulativeVolume(levels, n - 1)

\* the two-pointer walk told by cumulative volumes: with the asks before i
\* and the bids before j used up, the pair (i, j) is matched up to the
\* smaller of the two cumulative volumes and the side that reaches it first
\* moves on; the walk stops at a pair whose spread is below required_spread
RECURSIVE MatchedVolume(_, _, _, _, _, _, _)
MatchedVolume(asks, bids, required_spread, i, j, matched, walked) ==
    IF i > Len(asks) \/ j > Len(bids)
    THEN [volume |-> matched, steps |-> walked]
    ELSE IF asks[i].price = 0
            \/ MulDiv(bids[j].price - asks[i].price, 100 * PctScale, asks[i].price)
                  < required_spread
    THEN [volume |-> matched, steps |-> walked]
    ELSE IF CumulativeVolume(asks, i) <= CumulativeVolume(bids, j)
    THEN MatchedVolume(asks, bids, required_spread, i + 1, j,
                       CumulativeVolume(asks, i), walked + 1)
    ELSE MatchedVolume(asks, bids, required_spread, i, j + 1,
                       CumulativeVolume(bids, j), walked + 1)

\* C24: calculate_max_executable_volume returns exactly the volume matched by
\* walking the asks of the buy book and the bids of the sell book in list
\* order with two pointers, up to the first pair of current levels whose
\* spread % is below buy_fee % + sell_fee % + min_profit %; it returns 0
\* when the top pair fails the test or a side is empty, never exceeds
\* min(total ask volume, total bid volume), and the walk ends within
\* len(asks) + len(bids) steps.
C24_MaxExecutableVolume ==
    calc.op = "calculate_max_executable_volume" =>
        LET asks == calc.orderbook.asks
            bids == calc.args.sell_orderbook.bids
            required_spread == FeeToPct(1 + 1) + MIN_PROFIT_THRESHOLD_PERCENT
            walk == MatchedVolume(asks, bids, required_spread, 1, 1, 0, 0)
        IN /\ ~calc.ret.raised
           /\ calc.ret.value = walk.volume
           /\ walk.steps <= Len(asks) + Len(bids)
           /\ calc.ret.value <= Min(TotalVolume(asks), TotalVolume(bids))
           /\ (asks = <<>> \/ bids = <<>>) => calc.ret.value = 0
           /\ (/\ asks # <<>>
               /\ bids # <<>>
               /\ 1000 * (bids[1].price - asks[1].price) < 3 * asks[1].price)
                 => calc.ret.value = 0

\* C21: Portfolio.record_trade(p) and PaperTrader._update_portfolio(..,
\* net_profit = p) are equivalent: from equal portfolios, for every sequence
\* of profits applied through one or the other, total_pnl_usd, realized_pnl,
\* total_value_usd, total_trades, winning_trades, losing_trades,
\* total_pnl_percent, max_drawdown_usd and max_drawdown_percent stay equal
\* after every step.
C21_RecordTradeEquivalent ==
    /\ portfolio.total_pnl_usd = recorded.total_pnl_usd
    /\ portfolio.realized_pnl = recorded.realized_pnl
    /\ portfolio.total_value_usd = recorded.total_value_usd
    /\ portfolio.total_trades = recorded.total_trades
    /\ portfolio.winning_trades = recorded.winning_trades
    /\ portfolio.losing_trades = recorded.losing_trades
    /\ portfolio.total_pnl_percent = recorded.total_pnl_percent
    /\ portfolio.max_drawdown_usd = recorded.max_drawdown_usd
    /\ portfolio.max_drawdown_percent = recorded.max_drawdown_percent

\* a loss, a zero profit and a gain, the last applied through record_trade to
\* one portfolio and through _update_portfolio to the other
C21_Witness ==
    /\ Len(applied) = 3
    /\ applied[1] < 0
    /\ applied[2] = 0
    /\ applied[3] > 0
    /\ lastOp = "record_trade"
    /\ lastArg.currency = "_update_portfolio"
    /\ portfolio.max_drawdown_usd = 500 * MoneyScale
    /\ recorded.losing_trades = 2
    /\ portfolio.initial_value_usd > 0

\* the ids of the trades of a history that satisfy a test, and the sum of
\* net_profit over a set of trades of the history
CompletedTrades(ts) == { id \in DOMAIN ts : ts[id].status = "completed" }

RECURSIVE SumNetProfit(_, _)
SumNetProfit(ts, ids) ==
    IF ids = {} THEN 0
    ELSE LET id == CHOOSE x \in ids : TRUE
         IN ts[id].net_profit + SumNetProfit(ts, ids \ {id})

\* C26: after any sequence of execute_arbitrage and reset calls the portfolio
\* agrees with the trade history: total_trades is the number of completed
\* trades stored, winning_trades the number of those with net_profit > 0,
\* total_pnl_usd = realized_pnl = the sum of net_profit over all stored
\* trades, and total_value_usd = initial_value_usd + total_pnl_usd.
C26_PortfolioAgreesWithHistory ==
    /\ portfolio.total_trades = Cardinality(CompletedTrades(trades))
    /\ portfolio.winning_trades =
           Cardinality({ id \in CompletedTrades(trades) : trades[id].net_profit > 0 })
    /\ portfolio.total_pnl_usd = portfolio.realized_pnl
    /\ portfolio.total_pnl_usd = SumNetProfit(trades, DOMAIN trades)
    /\ portfolio.total_value_usd = portfolio.initial_value_usd + portfolio.total_pnl_usd

\* a completed trade with a profit or a loss, stored after a reset erased an
\* earlier completed trade
C26_Witness ==
    /\ steps = 3
    /\ calls = 1
    /\ nextId = 7
    /\ lastOp = "execute_arbitrage"
    /\ Cardinality(CompletedTrades(trades)) = 1
    /\ portfolio.total_pnl_usd # 0
    /\ riskManager.detached
    /\ riskManager.portfolio.total_trades = 1

\* C27: every order stored in PaperTrader.orders with status FILLED has
\* filled_volume equal to its requested_volume, and no stored order is left
\* PENDING.
C27_FilledOrdersFullyFilled ==
    \A id \in DOMAIN orders :
        /\ orders[id].status = "filled" => orders[id].filled_volume = orders[id].requested_volume
        /\ orders[id].status # "pending"

\* C28: each leg of a completed trade records a filled_volume no larger than
\* the total volume on the side of the orderbook the leg hits (the asks of the
\* buy orderbook, the bids of the sell orderbook).
C28_FillWithinAvailableVolume ==
    (lastOp = "execute_arbitrage" /\ lastTrade.status = "completed") =>
        /\ lastTrade.buy_order.filled_volume <= TotalVolume(SideLevels(lastBooks[1], "buy"))
        /\ lastTrade.sell_order.filled_volume <= TotalVolume(SideLevels(lastBooks[2], "sell"))

\* C29: a RiskManager constructed from the trader's portfolio reads the same
\* max_drawdown_percent, total_pnl_usd and total_value_usd as
\* PaperTrader.get_portfolio() returns, after execute_arbitrage calls and
\* after resets.
C29_RiskManagerSeesCurrentPortfolio ==
    LET seen == risk_manager_portfolio(riskManager, portfolio)
    IN /\ seen.max_drawdown_percent = portfolio.max_drawdown_percent
       /\ seen.total_pnl_usd = portfolio.total_pnl_usd
       /\ seen.total_value_usd = portfolio.total_value_usd

\* the drawdown of the portfolio the risk manager refers to has reached the limit
DrawdownReached ==
    risk_manager_portfolio(riskManager, portfolio).max_drawdown_percent
        >= MAX_DRAWDOWN_PERCENT * PctScale

\* how far main's loop is from the break of the stop-loss check: the symbols
\* still to scan, then the opportunities still to visit, then the check
StepsToStopLoss(m) ==
    CASE m.pc = "stopped" -> 0
      [] m.pc = "stop_loss" -> 1
      [] m.pc = "opportunity" -> 2 + 100 * (Len(Symbols) - m.symbol) + Len(m.opportunities)
      [] OTHER -> 2 + 100 * (Len(Symbols) - m.symbol) + 99

\* C25: once max_drawdown_percent has reached MAX_DRAWDOWN_PERCENT, every
\* later can_trade returns (False, max-drawdown reason) and every later
\* check_stop_loss returns (True, reason), whatever profits are recorded
\* afterwards; main's loop then places no further trade and starts no further
\* iteration, each of its steps takes it closer to the stop-loss check of the
\* iteration it is in, and that check breaks out of the loop.
C25_DrawdownHaltsTrading ==
    /\ [](DrawdownReached =>
            [](/\ lastOp = "can_trade" => lastRet = <<FALSE, "Max drawdown exceeded">>
               /\ lastOp = "check_stop_loss" => lastRet[1]))
    /\ [][DrawdownReached =>
            /\ main'.trades_executed = main.trades_executed
            /\ main'.iteration = main.iteration
            /\ DOMAIN trades' = DOMAIN trades]_<<main.trades_executed, main.iteration, DOMAIN trades>>
    /\ [][(DrawdownReached /\ main.pc = "stop_loss") =>
            (main'.pc = "stopped" /\ main'.exit = "stop_loss")]_<<main.pc, main.exit>>
    /\ [][(DrawdownReached /\ main.pc # "init") =>
            StepsToStopLoss(main') < StepsToStopLoss(main)]_<<main.pc, main.symbol, Len(main.opportunities)>>

\* the trade of the first symbol took the drawdown to the limit, the second
\* symbol's opportunity was turned down for it, and the stop-loss check is next
C25_Witness ==
    /\ DrawdownReached
    /\ main.pc = "stop_loss"
    /\ main.trades_executed > 0
    /\ lastOp = "can_trade"
    /\ lastRet = <<FALSE, "Max drawdown exceeded">>

\* C30: current_exposure is never negative after update_exposure calls with
\* non-negative values; in main's loop it is 0 at every can_trade call, and
\* can_trade turns an opportunity down for the total exposure only when the
\* notional of that one trade exceeds MAX_TOTAL_EXPOSURE_USD.
C30_ExposureNeverOpened ==
    /\ riskManager.current_exposure >= 0
    /\ main.pc # "init" =>
          /\ riskManager.current_exposure = 0
          /\ (lastOp = "can_trade" /\ lastRet = <<FALSE, "Max exposure exceeded">>) =>
                 trade_value(lastArg) > MAX_TOTAL_EXPOSURE_USD * MoneyScale

\* main's loop has placed a second trade, let through by can_trade after the
\* first one completed and update_exposure(.., is_open=False) had run
C30_Witness ==
    /\ main.pc # "init"
    /\ main.trades_executed > 1
    /\ lastOp = "execute_arbitrage"
    /\ lastTrade.status = "completed"
    /\ riskManager.current_exposure = 0
====
